---- MODULE Spec2Model ----
(***************************************************************************)
(* Corpus statistics library (jupyter_notebooks/utils): the cross-corpus   *)
(* comparator, the lexical diversity and entropy functions, the Heaps' law *)
(* sampler, the document-term matrix builder and the threaded corpus       *)
(* aggregator, as state machines.                                          *)
(*                                                                         *)
(* A pure function of the library is an operator that computes what the    *)
(* Python code computes; a specification draws the function's inputs in    *)
(* its initial states and has one action per call, which records the       *)
(* called function in `call`, its scalar parameters in `args` and the      *)
(* returned value in `ret`.                                                *)
(*                                                                         *)
(* Python floats.  A float that the code obtains by dividing two integers  *)
(* is the exact fraction <<n, d>> in lowest terms (d > 0): for the small   *)
(* integers of the model two such floats are equal exactly when the        *)
(* fractions are.  A division by zero is the value ZeroDivisionError, the  *)
(* exception Python raises there.                                          *)
(***************************************************************************)
EXTENDS Integers, Sequences, FiniteSets, TLC

VARIABLES
    tokens,         \* the token sequence passed to a one-sequence function
    tokens1,        \* vocabulary_overlap: first token list
    tokens2,        \* vocabulary_overlap: second token list
    token_lists,    \* compute_frequency_matrix_gpu: the documents
    supplied_vocab, \* compute_frequency_matrix_gpu: the vocab argument
    corpora,        \* corpus name -> tokens, as a dict in insertion order
    HAS_TORCH,      \* text_stats.HAS_TORCH: torch could be imported
    torch_lstsq,    \* the imported torch still provides torch.lstsq
    stuck,          \* the corpora whose computation never finishes
    computed,       \* corpus name -> what _compute_corpus_stats comes to
    pc,             \* analyze_corpora_parallel: where the calling thread is
    futures,        \* the futures of the executor, in submission order
    threads,        \* the worker threads the executor has started
    results,        \* analyze_corpora_parallel: results, a dict
    call,           \* the function called last ("none" before any call)
    args,           \* the scalar parameters of that call
    ret             \* what that call returned

\* the state of a call of analyze_corpora_parallel and of its executor
batch == <<pc, futures, threads, results>>

vars ==
    <<tokens, tokens1, tokens2, token_lists, supplied_vocab, corpora, HAS_TORCH,
      torch_lstsq, stuck, computed, batch, call, args, ret>>

\* what a call of a pure function leaves alone: it never mutates its inputs
\* nor the imported modules, and it starts no thread
frame ==
    <<tokens, tokens1, tokens2, token_lists, supplied_vocab, corpora, HAS_TORCH,
      torch_lstsq, stuck, computed, batch>>

\* no call of analyze_corpora_parallel is under way
NoBatch ==
    /\ stuck = {}
    /\ computed = <<>>
    /\ pc = "idle"
    /\ futures = <<>>
    /\ threads = 0
    /\ results = <<>>

(***************************************************************************)
(* Bounds of the model.                                                    *)
(***************************************************************************)
MaxOverlapLen == 3
MaxLen == 4
MaxWindow == 3
MaxMinFreq == 2
MaxStep == 3
MaxDocs == 2
MaxDocLen == 2
MaxCorpora == 3
MaxBatch == 3

(***************************************************************************)
(* Tokens.  A token is a Python str; Code gives its code points, which is  *)
(* what str comparison (sorted) and len() read.                            *)
(***************************************************************************)
Tokens == {"a", "b", "c", "d"}

\* the code points of the tokens of the model
Code ==
    [w \in {"a", "b", "c", "d", "ab", "B"} |->
        CASE w = "a" -> <<97>>
          [] w = "b" -> <<98>>
          [] w = "c" -> <<99>>
          [] w = "d" -> <<100>>
          [] w = "ab" -> <<97, 98>>
          [] w = "B" -> <<66>>]

\* the tokens of the one-sequence functions
StatTokens == {"a", "b", "c"}

\* the default parameters of the code
DefaultWindowSize == 100
DefaultMinFreq == 5
DefaultPmiWindow == 5
DefaultStep == 100

\* ThreadPoolExecutor(max_workers=min(4, len(corpora)))
MaxWorkers == 4

NoArgs == [none |-> TRUE]

\* an Optional argument: None, or the value it holds
None == <<>>
Some(v) == <<v>>

SeqsUpTo(S, n) == UNION {[1..k -> S] : k \in 0..n}

(***************************************************************************)
(* Python built-ins.                                                       *)
(***************************************************************************)
\* set(tokens)
PySet(seq) == {seq[i] : i \in DOMAIN seq}

\* list.count(x)
Count(seq, x) == Cardinality({i \in DOMAIN seq : seq[i] = x})

\* collections.Counter(tokens): each distinct token with its count
Counter(seq) == [t \in PySet(seq) |-> Count(seq, t)]

\* min(a, b)
Min(a, b) == IF a <= b THEN a ELSE b

RECURSIVE Gcd(_, _)
Gcd(a, b) == IF b = 0 THEN a ELSE Gcd(b, a % b)

ZeroDivisionError == <<1, 0>>

\* the float 0.0 (also the int 0 of a dict the code mixes with floats)
Zero == <<0, 1>>

\* the float 1.0
One == <<1, 1>>

\* n / d on ints (true division), n >= 0
Div(n, d) ==
    IF d = 0 THEN ZeroDivisionError
    ELSE LET g == Gcd(n, d) IN <<n \div g, d \div g>>

(***************************************************************************)
(* Float arithmetic.  +, -, * and / are exact on fractions.  math.sqrt,    *)
(* math.log2, math.log and 2 ** x are rounded down to FracBits binary      *)
(* digits (IEEE doubles round to 53): the rounding keeps the sign of a     *)
(* logarithm, log2(1) = 0, sqrt of a square and 2 ** x >= 1 for x >= 0.    *)
(* An exception raised inside an expression (a fraction whose denominator  *)
(* is 0) is the value of the whole expression, as is NaN.                  *)
(***************************************************************************)
\* numpy's nan (the mean of an empty array)
NaN == <<0, 0>>

Raised(x) == x[2] = 0

Abs(n) == IF n < 0 THEN -n ELSE n

\* the fraction n / d in lowest terms with a positive denominator
Frac(n, d) ==
    IF d = 0 THEN ZeroDivisionError
    ELSE LET g == Gcd(Abs(n), Abs(d))
             s == IF d < 0 THEN -1 ELSE 1
         IN <<s * (n \div g), Abs(d) \div g>>

\* float(n)
Float(n) == <<n, 1>>

FAdd(x, y) ==
    IF Raised(x) THEN x ELSE IF Raised(y) THEN y
    ELSE LET g == Gcd(x[2], y[2])
         IN Frac(x[1] * (y[2] \div g) + y[1] * (x[2] \div g),
                 (x[2] \div g) * y[2])

FNeg(x) == IF Raised(x) THEN x ELSE <<-x[1], x[2]>>

FSub(x, y) == FAdd(x, FNeg(y))

FMul(x, y) ==
    IF Raised(x) THEN x ELSE IF Raised(y) THEN y
    ELSE LET g1 == Gcd(Abs(x[1]), y[2])
             g2 == Gcd(Abs(y[1]), x[2])
         IN Frac((x[1] \div g1) * (y[1] \div g2),
                 (x[2] \div g2) * (y[2] \div g1))

\* x / y on Python floats: a zero divisor raises
FDiv(x, y) ==
    IF Raised(x) THEN x ELSE IF Raised(y) THEN y
    ELSE IF y[1] = 0 THEN ZeroDivisionError
    ELSE FMul(x, Frac(y[2], y[1]))

\* x / y on numpy float64: a zero divisor gives nan or inf with a warning
NpDiv(x, y) ==
    IF Raised(x) THEN x ELSE IF Raised(y) THEN y
    ELSE IF y[1] = 0 THEN NaN
    ELSE FMul(x, Frac(y[2], y[1]))

FLess(x, y) == x[1] * y[2] < y[1] * x[2]

FracBits == 8

RECURSIVE Pow2Int(_)
Pow2Int(k) == IF k = 0 THEN 1 ELSE 2 * Pow2Int(k - 1)

Scale == Pow2Int(FracBits)

\* the largest r in lo..hi with r * r <= n
RECURSIVE ISqrtIn(_, _, _)
ISqrtIn(n, lo, hi) ==
    IF lo = hi THEN lo
    ELSE LET mid == (lo + hi + 1) \div 2
         IN IF mid * mid <= n THEN ISqrtIn(n, mid, hi)
            ELSE ISqrtIn(n, lo, mid - 1)

ISqrt(n) == ISqrtIn(n, 0, Min(n, 46340))

\* math.sqrt(x), x >= 0
Sqrt(x) ==
    IF Raised(x) THEN x
    ELSE Frac(ISqrt((x[1] * Scale * Scale) \div x[2]), Scale)

\* floor(log2(n / d)) for n / d >= 1
RECURSIVE FloorLog2(_, _)
FloorLog2(n, d) == IF n < 2 * d THEN 0 ELSE 1 + FloorLog2(n, 2 * d)

\* the working precision of the digit-by-digit algorithms below
Work == Scale * 32

\* the first k binary digits of log2(m / Work) for a mantissa
\* Work <= m < 2 Work, as an integer
RECURSIVE Log2Digits(_, _)
Log2Digits(m, k) ==
    IF k = 0 THEN 0
    ELSE LET sq == (m * m) \div Work
         IN IF sq >= 2 * Work
            THEN Pow2Int(k - 1) + Log2Digits(sq \div 2, k - 1)
            ELSE Log2Digits(sq, k - 1)

\* math.log2(x), x > 0: log2(n/d) = -log2(d/n) below 1
Log2(x) ==
    IF Raised(x) THEN x
    ELSE LET up == x[1] >= x[2]
             n == IF up THEN x[1] ELSE x[2]
             d == IF up THEN x[2] ELSE x[1]
             e == FloorLog2(n, d)
             m == (n * Work) \div (d * Pow2Int(e))
             v == e * Scale + Log2Digits(m, FracBits)
         IN Frac(IF up THEN v ELSE -v, Scale)

\* ln 2 = 0.6931..., times Work
Ln2Scaled == (6931 * Work) \div 10000

\* math.log(x), x >= 1
Ln(x) ==
    IF Raised(x) THEN x
    ELSE LET l == Log2(x)
         IN Frac(((l[1] * (Scale \div l[2])) * Ln2Scaled) \div Work, Scale)

\* 2 ** (f / Scale) * Work for the binary digits of f from the k-th on;
\* root is 2 ** (1 / 2 ** k) * Work
RECURSIVE Exp2Digits(_, _, _)
Exp2Digits(f, k, root) ==
    IF k > FracBits THEN Work
    ELSE LET bit == (f \div Pow2Int(FracBits - k)) % 2
             rest == Exp2Digits(f, k + 1, ISqrt(root * Work))
         IN IF bit = 1 THEN (rest * root) \div Work ELSE rest

\* 2 ** x, x >= 0
Exp2(x) ==
    IF Raised(x) THEN x
    ELSE LET whole == x[1] \div x[2]
             f == ((x[1] % x[2]) * Scale) \div x[2]
             m == Exp2Digits(f, 1, ISqrt(2 * Work * Work))
         IN Frac(Pow2Int(whole) * (m \div (Work \div Scale)), Scale)

\* sum(xs) of a list of floats
RECURSIVE FSum(_)
FSum(xs) == IF xs = <<>> THEN Zero ELSE FAdd(Head(xs), FSum(Tail(xs)))

\* np.mean(xs)
NpMean(xs) == IF xs = <<>> THEN NaN ELSE NpDiv(FSum(xs), Float(Len(xs)))

\* np.std(xs): the population standard deviation
NpStd(xs) ==
    LET mu == NpMean(xs)
        dev == [i \in DOMAIN xs |-> FMul(FSub(xs[i], mu), FSub(xs[i], mu))]
    IN Sqrt(NpMean(dev))

\* the elements of a set in an (arbitrary) iteration order
RECURSIVE SetToSeq(_)
SetToSeq(S) ==
    IF S = {} THEN <<>>
    ELSE LET x == CHOOSE y \in S : TRUE IN <<x>> \o SetToSeq(S \ {x})

\* sum(f[k] for k in d) over the keys of a dict
RECURSIVE SumOver(_, _)
SumOver(S, f) ==
    IF S = {} THEN 0
    ELSE LET x == CHOOSE y \in S : TRUE IN f[x] + SumOver(S \ {x}, f)

\* sum(f[k] for k in S) with float terms
RECURSIVE FSumOver(_, _)
FSumOver(S, f) ==
    IF S = {} THEN Zero
    ELSE LET x == CHOOSE y \in S : TRUE IN FAdd(f[x], FSumOver(S \ {x}, f))

\* a float rounded down to FracBits binary digits
FRound(x) == IF Raised(x) THEN x ELSE Frac((x[1] * Scale) \div x[2], Scale)

\* seq[lo:hi] for 0 <= lo (Python's 0-based, end-exclusive slice)
Slice(seq, lo, hi) == SubSeq(seq, lo + 1, Min(hi, Len(seq)))

\* counter[key]: a Counter gives 0 for a key it does not hold
CounterGet(counter, key) ==
    IF key \in DOMAIN counter THEN counter[key] ELSE 0

\* the ints of a set in increasing order
RECURSIVE Ascending(_)
Ascending(S) ==
    IF S = {} THEN <<>>
    ELSE LET m == CHOOSE x \in S : \A y \in S : x <= y
         IN <<m>> \o Ascending(S \ {m})

\* sorted(xs) for a list of ints
RECURSIVE SortedInts(_)
SortedInts(xs) ==
    IF xs = <<>> THEN <<>>
    ELSE LET i == CHOOSE k \in DOMAIN xs : \A j \in DOMAIN xs : xs[k] <= xs[j]
         IN <<xs[i]>> \o
            SortedInts([k \in 1..(Len(xs) - 1) |->
                            IF k < i THEN xs[k] ELSE xs[k + 1]])

\* {} : the empty dict
EmptyDict == <<>>

(***************************************************************************)
(* text_stats.TextStatistics: lexical diversity                            *)
(***************************************************************************)
type_token_ratio_no_set(toks) ==
    IF toks = <<>> THEN Zero
    ELSE Div(Len(toks), Len(toks))

type_token_ratio_unguarded(toks) ==
    Div(Cardinality(PySet(toks)), Len(toks))

type_token_ratio(toks) ==
    IF toks = <<>> THEN Zero
    ELSE Div(Cardinality(PySet(toks)), Len(toks))

root_ttr(toks) ==
    IF toks = <<>> THEN Zero
    ELSE FDiv(Float(Cardinality(PySet(toks))), Sqrt(Float(Len(toks))))

log_ttr(toks) ==
    IF Len(toks) <= 1 THEN Zero
    ELSE LET unique == Cardinality(PySet(toks))
         IN IF unique <= 1 THEN Zero
            ELSE FDiv(Ln(Float(unique)), Ln(Float(Len(toks))))

\* moving_average_ttr leaving out the last window (range without the + 1)
moving_average_ttr_short_range(toks, window_size) ==
    IF Len(toks) < window_size THEN type_token_ratio(toks)
    ELSE LET ttrs == [k \in 1..(Len(toks) - window_size) |->
                        LET i == k - 1
                            window == Slice(toks, i, i + window_size)
                        IN Div(Cardinality(PySet(window)), window_size)]
         IN NpMean(ttrs)

moving_average_ttr(toks, window_size) ==
    IF Len(toks) < window_size THEN type_token_ratio(toks)
    ELSE LET ttrs == [k \in 1..(Len(toks) - window_size + 1) |->
                        LET i == k - 1
                            window == Slice(toks, i, i + window_size)
                        IN Div(Cardinality(PySet(window)), window_size)]
         IN NpMean(ttrs)

hapax_legomena_ratio(toks) ==
    IF toks = <<>> THEN Zero
    ELSE LET freq == Counter(toks)
             hapax == Cardinality({t \in DOMAIN freq : freq[t] = 1})
         IN Div(hapax, Len(toks))

\* yules_k with the number of types of each frequency squared in M2
yules_k_squared_count(toks) ==
    IF Len(toks) < 2 THEN Zero
    ELSE LET freq == Counter(toks)
             N == Len(toks)
             values == {freq[t] : t \in DOMAIN freq}
             freq_of_freq ==
                 [i \in values |-> Cardinality({t \in DOMAIN freq : freq[t] = i})]
             M1 == N
             M2 == SumOver(values, [i \in values |->
                                       (freq_of_freq[i] * freq_of_freq[i]) * (i * i)])
         IN IF M1 = 0 THEN Zero
            ELSE Div(10000 * (M2 - M1), M1 * M1)

yules_k(toks) ==
    IF Len(toks) < 2 THEN Zero
    ELSE LET freq == Counter(toks)
             N == Len(toks)
             values == {freq[t] : t \in DOMAIN freq}
             freq_of_freq ==
                 [i \in values |-> Cardinality({t \in DOMAIN freq : freq[t] = i})]
             M1 == N
             M2 == SumOver(values, [i \in values |-> freq_of_freq[i] * (i * i)])
         IN IF M1 = 0 THEN Zero
            ELSE Div(10000 * (M2 - M1), M1 * M1)

\* simpsons_d drawing the two tokens with replacement: 1 - sum(n * n) / (N * N)
simpsons_d_with_replacement(toks) ==
    IF Len(toks) < 2 THEN Zero
    ELSE LET freq == Counter(toks)
             N == Len(toks)
             pairs == SumOver(DOMAIN freq,
                              [t \in DOMAIN freq |-> freq[t] * freq[t]])
         IN FSub(One, Div(pairs, N * N))

simpsons_d(toks) ==
    IF Len(toks) < 2 THEN Zero
    ELSE LET freq == Counter(toks)
             N == Len(toks)
             pairs == SumOver(DOMAIN freq,
                              [t \in DOMAIN freq |-> freq[t] * (freq[t] - 1)])
         IN FSub(One, Div(pairs, N * (N - 1)))

(***************************************************************************)
(* text_stats.py: Heaps' law.  The result is the Python tuple              *)
(* <<corpus_sizes, vocab_sizes, K, beta>>, or the exception raised.        *)
(***************************************************************************)
\* what torch.lstsq raises in a torch that has removed it
RuntimeError == <<"RuntimeError", 0>>

\* an element of np.empty(n) that was never assigned
Uninitialized == "uninitialized"

\* np.empty(n, dtype=np.int64)
np_empty(n) == [k \in 1..n |-> Uninitialized]

\* np.log(a) of an array of positive ints
np_log(a) == [k \in DOMAIN a |-> Ln(Float(a[k]))]

\* np.polyfit(x, y, 1): the least-squares line through the points, as the
\* terms <<slope, intercept>> of its two coefficients
np_polyfit(x, y) ==
    <<[coefficient |-> "slope", x |-> x, y |-> y],
      [coefficient |-> "intercept", x |-> x, y |-> y]>>

\* np.exp(v) of a coefficient
np_exp(v) == [exp |-> v]

\* torch.lstsq(B, A) for A = [log_N, 1]: the same line, computed by torch
torch_lstsq_solve(x, y) ==
    <<[coefficient |-> "slope", x |-> x, y |-> y],
      [coefficient |-> "intercept", x |-> x, y |-> y]>>

\* a round of the sampling loop that counts its window into an empty vocab
HeapsLoopBody_fresh_vocab(toks, step, i, st) ==
    LET end_idx == Min(i + step, Len(toks))
        window == Slice(toks, i, end_idx)
        vocab == Counter(window)
    IN [corpus_sizes |-> [st.corpus_sizes EXCEPT ![st.sample_idx + 1] = end_idx],
        vocab_sizes |-> [st.vocab_sizes EXCEPT
                             ![st.sample_idx + 1] = Cardinality(DOMAIN vocab)],
        vocab |-> vocab,
        sample_idx |-> st.sample_idx + 1,
        visits |-> st.visits \o [k \in 1..Len(window) |-> i + k - 1]]

\* a round of the sampling loop that builds the vocabulary of its sample from
\* the first token on
HeapsLoopBody_rescan(toks, step, i, st) ==
    LET end_idx == Min(i + step, Len(toks))
        window == Slice(toks, 0, end_idx)
        vocab == Counter(window)
    IN [corpus_sizes |-> [st.corpus_sizes EXCEPT ![st.sample_idx + 1] = end_idx],
        vocab_sizes |-> [st.vocab_sizes EXCEPT
                             ![st.sample_idx + 1] = Cardinality(DOMAIN vocab)],
        vocab |-> vocab,
        sample_idx |-> st.sample_idx + 1,
        visits |-> st.visits \o [k \in 1..Len(window) |-> k - 1]]

\* one round of the sampling loop, for the window that starts at index i:
\* the tokens of the window are counted into vocab, then the sample is
\* stored; visits lists the indices of the tokens the loop has iterated over
HeapsLoopBody(toks, step, i, st) ==
    LET end_idx == Min(i + step, Len(toks))
        window == Slice(toks, i, end_idx)
        vocab == [w \in DOMAIN st.vocab \cup PySet(window) |->
                      CounterGet(st.vocab, w) + Count(window, w)]
    IN [corpus_sizes |-> [st.corpus_sizes EXCEPT ![st.sample_idx + 1] = end_idx],
        vocab_sizes |-> [st.vocab_sizes EXCEPT
                             ![st.sample_idx + 1] = Cardinality(DOMAIN vocab)],
        vocab |-> vocab,
        sample_idx |-> st.sample_idx + 1,
        visits |-> st.visits \o [k \in 1..Len(window) |-> i + k - 1]]

\* for i in range(i, len(tokens), step)
RECURSIVE HeapsLoop(_, _, _, _)
HeapsLoop(toks, step, i, st) ==
    IF i >= Len(toks) THEN st
    ELSE HeapsLoop(toks, step, i + step, HeapsLoopBody(toks, step, i, st))

\* the sampling pass of _heaps_law_cpu_optimized, step > 0
HeapsScan(toks, step) ==
    LET num_samples == (Len(toks) + step - 1) \div step
    IN HeapsLoop(toks, step, 0,
                 [corpus_sizes |-> np_empty(num_samples),
                  vocab_sizes |-> np_empty(num_samples),
                  vocab |-> EmptyDict,
                  sample_idx |-> 0,
                  visits |-> <<>>])

_heaps_law_cpu_optimized(toks, step) ==
    IF step = 0 THEN ZeroDivisionError
    ELSE LET st == HeapsScan(toks, step)
             corpus_sizes == SubSeq(st.corpus_sizes, 1, st.sample_idx)
             vocab_sizes == SubSeq(st.vocab_sizes, 1, st.sample_idx)
             coeffs == np_polyfit(np_log(corpus_sizes), np_log(vocab_sizes))
         IN IF Len(corpus_sizes) > 1
            THEN <<corpus_sizes, vocab_sizes, np_exp(coeffs[2]), coeffs[1]>>
            ELSE <<corpus_sizes, vocab_sizes, Zero, Zero>>

\* for i in range(i, len(tokens), step) of _heaps_law_gpu: the samples are
\* appended, seen_tokens holds the indices of the tokens seen
RECURSIVE HeapsGpuLoop(_, _, _, _)
HeapsGpuLoop(token_indices, step, i, st) ==
    IF i >= Len(token_indices) THEN st
    ELSE LET end_idx == Min(i + step, Len(token_indices))
             seen_tokens == st.seen_tokens \cup
                            PySet(Slice(token_indices, i, end_idx))
         IN HeapsGpuLoop(token_indices, step, i + step,
                [corpus_sizes |-> Append(st.corpus_sizes, end_idx),
                 vocab_sizes |-> Append(st.vocab_sizes, Cardinality(seen_tokens)),
                 seen_tokens |-> seen_tokens])

_heaps_law_gpu(toks, step) ==
    IF step = 0 THEN ZeroDivisionError
    ELSE LET unique_tokens == SetToSeq(PySet(toks))
             token_to_idx == [w \in PySet(toks) |->
                 (CHOOSE k \in DOMAIN unique_tokens : unique_tokens[k] = w) - 1]
             token_indices == [k \in DOMAIN toks |-> token_to_idx[toks[k]]]
             st == HeapsGpuLoop(token_indices, step, 0,
                       [corpus_sizes |-> <<>>, vocab_sizes |-> <<>>,
                        seen_tokens |-> {}])
             coeffs == torch_lstsq_solve(np_log(st.corpus_sizes),
                                         np_log(st.vocab_sizes))
         IN IF Len(st.corpus_sizes) > 1
            THEN IF torch_lstsq
                 THEN <<st.corpus_sizes, st.vocab_sizes, np_exp(coeffs[2]), coeffs[1]>>
                 ELSE RuntimeError
            ELSE <<st.corpus_sizes, st.vocab_sizes, Zero, Zero>>

\* heaps_law_analysis without its return for fewer tokens than a step
heaps_law_analysis_unguarded(toks, step, use_gpu) ==
    IF use_gpu /\ HAS_TORCH THEN _heaps_law_gpu(toks, step)
    ELSE _heaps_law_cpu_optimized(toks, step)

heaps_law_analysis(toks, step, use_gpu) ==
    IF Len(toks) < step
    THEN <<<<Len(toks)>>, <<Cardinality(PySet(toks))>>, Zero, Zero>>
    ELSE IF use_gpu /\ HAS_TORCH THEN _heaps_law_gpu(toks, step)
         ELSE _heaps_law_cpu_optimized(toks, step)

(***************************************************************************)
(* text_stats.zipfs_law_analysis: the result is the tuple                  *)
(* <<ranks, frequencies, zipf_exponent>>; the exponent of a regression is  *)
(* the negated slope, as a term.                                           *)
(***************************************************************************)
\* zipfs_law_analysis sorting the frequencies without reverse=True
zipfs_law_analysis_ascending(toks) ==
    IF toks = <<>> THEN <<<<>>, <<>>, Zero>>
    ELSE LET freq == Counter(toks)
             values == [k \in 1..Cardinality(DOMAIN freq) |->
                           freq[SetToSeq(DOMAIN freq)[k]]]
             sorted_freq == SortedInts(values)
             ranks == [k \in 1..Len(sorted_freq) |-> k]
             frequencies == sorted_freq
         IN IF Len(ranks) > 1
            THEN <<ranks, frequencies,
                   [negated |-> np_polyfit(np_log(ranks), np_log(frequencies))[1]]>>
            ELSE <<ranks, frequencies, Zero>>

zipfs_law_analysis(toks) ==
    IF toks = <<>> THEN <<<<>>, <<>>, Zero>>
    ELSE LET freq == Counter(toks)
             values == [k \in 1..Cardinality(DOMAIN freq) |->
                           freq[SetToSeq(DOMAIN freq)[k]]]
             ascending == SortedInts(values)
             sorted_freq == [k \in DOMAIN ascending |->
                                ascending[Len(ascending) + 1 - k]]
             ranks == [k \in 1..Len(sorted_freq) |-> k]
             frequencies == sorted_freq
         IN IF Len(ranks) > 1
            THEN <<ranks, frequencies,
                   [negated |-> np_polyfit(np_log(ranks), np_log(frequencies))[1]]>>
            ELSE <<ranks, frequencies, Zero>>

(***************************************************************************)
(* nlp_metrics.NLPMetrics: entropy and information                         *)
(***************************************************************************)
\* shannon_entropy adding p * log2(p) where the code subtracts it
shannon_entropy_added(toks) ==
    IF toks = <<>> THEN Zero
    ELSE LET freq == Counter(toks)
             total == Len(toks)
             term == [t \in DOMAIN freq |->
                         LET p == Div(freq[t], total)
                         IN IF FLess(Zero, p) THEN FMul(p, Log2(p)) ELSE Zero]
         IN FSumOver(DOMAIN freq, term)

shannon_entropy(toks) ==
    IF toks = <<>> THEN Zero
    ELSE LET freq == Counter(toks)
             total == Len(toks)
             term == [t \in DOMAIN freq |->
                         LET p == Div(freq[t], total)
                         IN IF FLess(Zero, p) THEN FMul(p, Log2(p)) ELSE Zero]
         IN FSub(Zero, FSumOver(DOMAIN freq, term))

normalized_entropy(toks) ==
    IF toks = <<>> THEN Zero
    ELSE LET vocab_size == Cardinality(PySet(toks))
         IN IF vocab_size <= 1 THEN Zero
            ELSE FDiv(shannon_entropy(toks), Log2(Float(vocab_size)))

\* conditional_entropy_bigrams counting the antecedents over all positions,
\* the final one included
conditional_entropy_bigrams_all_positions(toks) ==
    IF Len(toks) < 2 THEN Zero
    ELSE LET bigrams == [i \in 1..(Len(toks) - 1) |-> <<toks[i], toks[i + 1]>>]
             bigram_freq == Counter(bigrams)
             unigram_freq == Counter(toks)
             term == [bigram \in DOMAIN bigram_freq |->
                         LET count == bigram_freq[bigram]
                             p_bigram == Div(count, Len(bigrams))
                             p_conditional ==
                                 Div(count, CounterGet(unigram_freq, bigram[1]))
                         IN IF FLess(Zero, p_conditional)
                            THEN FMul(p_bigram, Log2(p_conditional))
                            ELSE Zero]
         IN FSub(Zero, FSumOver(DOMAIN bigram_freq, term))

conditional_entropy_bigrams(toks) ==
    IF Len(toks) < 2 THEN Zero
    ELSE LET bigrams == [i \in 1..(Len(toks) - 1) |-> <<toks[i], toks[i + 1]>>]
             bigram_freq == Counter(bigrams)
             unigram_freq == Counter(Slice(toks, 0, Len(toks) - 1))
             term == [bigram \in DOMAIN bigram_freq |->
                         LET count == bigram_freq[bigram]
                             p_bigram == Div(count, Len(bigrams))
                             p_conditional ==
                                 Div(count, CounterGet(unigram_freq, bigram[1]))
                         IN IF FLess(Zero, p_conditional)
                            THEN FMul(p_bigram, Log2(p_conditional))
                            ELSE Zero]
         IN FSub(Zero, FSumOver(DOMAIN bigram_freq, term))

\* perplexity_unigram returning the entropy itself, without the power of two
perplexity_unigram_no_power(toks) ==
    LET H == shannon_entropy(toks)
    IN IF FLess(Zero, H) THEN H ELSE One

perplexity_unigram(toks) ==
    LET H == shannon_entropy(toks)
    IN IF FLess(Zero, H) THEN Exp2(H) ELSE One

burstiness(toks, target_word) ==
    LET positions == Ascending({i - 1 : i \in {j \in DOMAIN toks : toks[j] = target_word}})
    IN IF Len(positions) < 2 THEN Zero
       ELSE LET gaps == [k \in 1..(Len(positions) - 1) |->
                            Float(positions[k + 1] - positions[k])]
                mu == NpMean(gaps)
                sigma == NpStd(gaps)
            IN IF FAdd(mu, sigma) = Zero THEN Zero
               ELSE NpDiv(FSub(sigma, mu), FAdd(sigma, mu))

average_burstiness(toks, min_freq) ==
    LET freq == Counter(toks)
        frequent_words == SetToSeq({w \in DOMAIN freq : freq[w] >= min_freq})
    IN IF frequent_words = <<>> THEN Zero
       ELSE NpMean([k \in DOMAIN frequent_words |->
                       burstiness(toks, frequent_words[k])])

\* ((x - mean) / std) ** e, each product rounded as a float product is
RECURSIVE StdPower(_, _)
StdPower(z, e) ==
    IF e = 1 THEN z ELSE FRound(FMul(z, StdPower(z, e - 1)))

_skewness(data) ==
    IF Len(data) < 3 THEN Zero
    ELSE LET n == Len(data)
             xs == [i \in DOMAIN data |-> Float(data[i])]
             mean == NpMean(xs)
             std == NpStd(xs)
         IN IF std = Zero THEN Zero
            ELSE FMul(Div(n, (n - 1) * (n - 2)),
                      FSum([i \in DOMAIN xs |->
                               StdPower(FRound(NpDiv(FSub(xs[i], mean), std)), 3)]))

_kurtosis(data) ==
    IF Len(data) < 4 THEN Zero
    ELSE LET n == Len(data)
             xs == [i \in DOMAIN data |-> Float(data[i])]
             mean == NpMean(xs)
             std == NpStd(xs)
         IN IF std = Zero THEN Zero
            ELSE LET kurt ==
                         FMul(Div(n * (n + 1), (n - 1) * (n - 2) * (n - 3)),
                              FSum([i \in DOMAIN xs |->
                                  StdPower(FRound(NpDiv(FSub(xs[i], mean), std)), 4)]))
                     adjustment ==
                         Div(3 * ((n - 1) * (n - 1)), (n - 2) * (n - 3))
                 IN FSub(kurt, adjustment)

\* np.median(xs) of a non-empty list of ints
NpMedian(data) ==
    LET s == SortedInts(data)
        n == Len(s)
    IN IF n % 2 = 1 THEN Float(s[(n + 1) \div 2])
       ELSE Frac(s[n \div 2] + s[n \div 2 + 1], 2)

word_frequency_distribution(toks) ==
    IF toks = <<>> THEN EmptyDict
    ELSE LET freq == Counter(toks)
             frequencies == [k \in 1..Cardinality(DOMAIN freq) |->
                                freq[SetToSeq(DOMAIN freq)[k]]]
             floats == [k \in DOMAIN frequencies |-> Float(frequencies[k])]
             n(S) == Cardinality(S)
         IN [mean_frequency |-> NpMean(floats),
             median_frequency |-> NpMedian(frequencies),
             max_frequency |-> SortedInts(frequencies)[Len(frequencies)],
             frequency_std |-> NpStd(floats),
             frequency_skewness |-> _skewness(frequencies),
             frequency_kurtosis |-> _kurtosis(frequencies),
             hapax_count |-> n({t \in DOMAIN freq : freq[t] = 1}),
             dis_legomena_count |-> n({t \in DOMAIN freq : freq[t] = 2}),
             high_freq_words |-> n({t \in DOMAIN freq : freq[t] >= 10})]

\* pointwise_mutual_information counting the centre position as a
\* co-occurrence when word1 = word2
pointwise_mutual_information_centre(toks, word1, word2, window_size) ==
    LET freq == Counter(toks)
        n == Len(toks)
    IN IF word1 \notin DOMAIN freq \/ word2 \notin DOMAIN freq THEN Zero
       ELSE LET p_x == Div(freq[word1], n)
                p_y == Div(freq[word2], n)
                window(i) ==
                    Slice(toks, IF i - window_size > 0 THEN i - window_size ELSE 0,
                          Min(n, i + window_size + 1))
                centres == {i \in 0..(n - 1) : toks[i + 1] = word1}
                cooccurrences ==
                    SumOver(centres, [i \in centres |-> Count(window(i), word2)])
                total_windows ==
                    SumOver(centres, [i \in centres |-> Len(window(i)) - 1])
            IN IF total_windows = 0 \/ cooccurrences = 0 THEN Zero
               ELSE LET p_xy == Div(cooccurrences, total_windows)
                    IN IF FMul(p_x, p_y) = Zero THEN Zero
                       ELSE Log2(FDiv(p_xy, FMul(p_x, p_y)))

pointwise_mutual_information(toks, word1, word2, window_size) ==
    LET freq == Counter(toks)
        n == Len(toks)
    IN IF word1 \notin DOMAIN freq \/ word2 \notin DOMAIN freq THEN Zero
       ELSE LET p_x == Div(freq[word1], n)
                p_y == Div(freq[word2], n)
                window(i) ==
                    Slice(toks, IF i - window_size > 0 THEN i - window_size ELSE 0,
                          Min(n, i + window_size + 1))
                centres == {i \in 0..(n - 1) : toks[i + 1] = word1}
                cooccurrences ==
                    SumOver(centres,
                            [i \in centres |->
                                Count(window(i), word2)
                                    - (IF word1 = word2 THEN 1 ELSE 0)])
                total_windows ==
                    SumOver(centres, [i \in centres |-> Len(window(i)) - 1])
            IN IF total_windows = 0 \/ cooccurrences = 0 THEN Zero
               ELSE LET p_xy == Div(cooccurrences, total_windows)
                    IN IF FMul(p_x, p_y) = Zero THEN Zero
                       ELSE Log2(FDiv(p_xy, FMul(p_x, p_y)))

(***************************************************************************)
(* nlp_metrics.NLPMetrics.vocabulary_overlap                               *)
(***************************************************************************)
vocabulary_overlap_asym(t1, t2) ==
    LET vocab1 == PySet(t1)
        vocab2 == PySet(t2)
        intersection == vocab1 \cap vocab2
        union == vocab1 \cup vocab2
        n(S) == Cardinality(S)
    IN [jaccard_similarity |->
            IF union # {} THEN Div(n(intersection), n(vocab1)) ELSE Zero,
        dice_coefficient |->
            IF vocab1 # {} \/ vocab2 # {}
            THEN Div(2 * n(intersection), n(vocab1) + n(vocab2)) ELSE Zero,
        overlap_coefficient |->
            IF vocab1 # {} /\ vocab2 # {}
            THEN Div(n(intersection), Min(n(vocab1), n(vocab2))) ELSE Zero,
        vocab1_coverage |->
            IF vocab1 # {} THEN Div(n(intersection), n(vocab1)) ELSE Zero,
        vocab2_coverage |->
            IF vocab2 # {} THEN Div(n(intersection), n(vocab2)) ELSE Zero,
        unique_to_vocab1 |-> n(vocab1 \ vocab2),
        unique_to_vocab2 |-> n(vocab2 \ vocab1),
        shared_vocab |-> n(intersection)]

vocabulary_overlap_or_guard(t1, t2) ==
    LET vocab1 == PySet(t1)
        vocab2 == PySet(t2)
        intersection == vocab1 \cap vocab2
        union == vocab1 \cup vocab2
        n(S) == Cardinality(S)
    IN [jaccard_similarity |->
            IF union # {} THEN Div(n(intersection), n(union)) ELSE Zero,
        dice_coefficient |->
            IF vocab1 # {} \/ vocab2 # {}
            THEN Div(2 * n(intersection), n(vocab1) + n(vocab2)) ELSE Zero,
        overlap_coefficient |->
            IF vocab1 # {} \/ vocab2 # {}
            THEN Div(n(intersection), Min(n(vocab1), n(vocab2))) ELSE Zero,
        vocab1_coverage |->
            IF vocab1 # {} THEN Div(n(intersection), n(vocab1)) ELSE Zero,
        vocab2_coverage |->
            IF vocab2 # {} THEN Div(n(intersection), n(vocab2)) ELSE Zero,
        unique_to_vocab1 |-> n(vocab1 \ vocab2),
        unique_to_vocab2 |-> n(vocab2 \ vocab1),
        shared_vocab |-> n(intersection)]

vocabulary_overlap(t1, t2) ==
    LET vocab1 == PySet(t1)
        vocab2 == PySet(t2)
        intersection == vocab1 \cap vocab2
        union == vocab1 \cup vocab2
        n(S) == Cardinality(S)
    IN [jaccard_similarity |->
            IF union # {} THEN Div(n(intersection), n(union)) ELSE Zero,
        dice_coefficient |->
            IF vocab1 # {} \/ vocab2 # {}
            THEN Div(2 * n(intersection), n(vocab1) + n(vocab2)) ELSE Zero,
        overlap_coefficient |->
            IF vocab1 # {} /\ vocab2 # {}
            THEN Div(n(intersection), Min(n(vocab1), n(vocab2))) ELSE Zero,
        vocab1_coverage |->
            IF vocab1 # {} THEN Div(n(intersection), n(vocab1)) ELSE Zero,
        vocab2_coverage |->
            IF vocab2 # {} THEN Div(n(intersection), n(vocab2)) ELSE Zero,
        unique_to_vocab1 |-> n(vocab1 \ vocab2),
        unique_to_vocab2 |-> n(vocab2 \ vocab1),
        shared_vocab |-> n(intersection)]

(***************************************************************************)
(* parallel_nlp.GPUTextAnalyzer.compute_frequency_matrix_gpu.  A 2-d array *)
(* is the sequence of its rows; np.array([]) is the empty sequence.        *)
(***************************************************************************)
\* s < t on Python strs: the comparison of their code points, in order
RECURSIVE CodesLess(_, _)
CodesLess(s, t) ==
    IF t = <<>> THEN FALSE
    ELSE IF s = <<>> THEN TRUE
    ELSE IF Head(s) # Head(t) THEN Head(s) < Head(t)
    ELSE CodesLess(Tail(s), Tail(t))

StrLess(v, w) == CodesLess(Code[v], Code[w])

\* sorted(S) of a set of strs
RECURSIVE sorted(_)
sorted(S) ==
    IF S = {} THEN <<>>
    ELSE LET m == CHOOSE v \in S : \A w \in S \ {v} : StrLess(v, w)
         IN <<m>> \o sorted(S \ {m})

\* the distinct elements of a list in the order of their first occurrence
RECURSIVE FirstSeen(_)
FirstSeen(xs) ==
    IF xs = <<>> THEN <<>>
    ELSE LET front == FirstSeen(SubSeq(xs, 1, Len(xs) - 1))
             last == xs[Len(xs)]
         IN IF last \in PySet(front) THEN front ELSE Append(front, last)

\* the concatenation of the lists of a list
RECURSIVE Chain(_)
Chain(xss) == IF xss = <<>> THEN <<>> ELSE Head(xss) \o Chain(Tail(xss))

\* all_tokens after the loop over the documents
AllTokens(tls) == UNION {PySet(tls[d]) : d \in DOMAIN tls}

\* the index of each word when a repeated word keeps its first index
VocabToIdx_first_index(vocabulary) ==
    [w \in PySet(vocabulary) |->
        (CHOOSE i \in DOMAIN vocabulary :
            /\ vocabulary[i] = w
            /\ \A j \in DOMAIN vocabulary : vocabulary[j] = w => i <= j) - 1]

\* {w: i for i, w in enumerate(vocab)}: a repeated word keeps its last index
VocabToIdx(vocabulary) ==
    [w \in PySet(vocabulary) |->
        (CHOOSE i \in DOMAIN vocabulary :
            /\ vocabulary[i] = w
            /\ \A j \in DOMAIN vocabulary : vocabulary[j] = w => j <= i) - 1]

\* the matrix after the loop over the documents: np.zeros((n_docs, n_vocab))
\* with matrix[doc_idx, vocab_to_idx[token]] = count for the counted tokens
\* of each document that are in the vocabulary
FillMatrix(tls, vocab_to_idx, n_vocab) ==
    [doc_idx \in 1..Len(tls) |->
        LET freq == Counter(tls[doc_idx])
        IN [j \in 1..n_vocab |->
               LET hits == {token \in DOMAIN freq :
                               /\ token \in DOMAIN vocab_to_idx
                               /\ vocab_to_idx[token] = j - 1}
               IN IF hits = {} THEN Zero
                  ELSE Float(freq[CHOOSE token \in hits : TRUE])]]

\* compute_frequency_matrix_gpu with the vocabulary built as list(dict) of
\* the tokens in their order of appearance
compute_frequency_matrix_gpu_first_seen(tls, vocabulary) ==
    IF tls = <<>> THEN <<>>
    ELSE LET built == IF vocabulary = None THEN FirstSeen(Chain(tls))
                      ELSE vocabulary[1]
         IN IF built = <<>> THEN <<>>
            ELSE FillMatrix(tls, VocabToIdx(built), Len(built))

compute_frequency_matrix_gpu(tls, vocabulary) ==
    IF tls = <<>> THEN <<>>
    ELSE LET built == IF vocabulary = None THEN sorted(AllTokens(tls))
                      ELSE vocabulary[1]
         IN IF built = <<>> THEN <<>>
            ELSE FillMatrix(tls, VocabToIdx(built), Len(built))

(***************************************************************************)
(* parallel_nlp.ParallelCorpusAnalyzer.compute_pairwise_similarity.  A     *)
(* dict is the sequence of its <<key, value>> items in insertion order; a  *)
(* DataFrame is its index, its columns and the matrix of its values.       *)
(***************************************************************************)
\* list(d.keys())
Keys(d) == [k \in DOMAIN d |-> d[k][1]]

\* d[key] for a key of d
DictGet(d, key) == d[CHOOSE k \in DOMAIN d : d[k][1] = key][2]

\* d after d[key] = value: a new key is appended, a held key keeps its place
DictSet(d, key, value) ==
    IF \E k \in DOMAIN d : d[k][1] = key
    THEN [k \in DOMAIN d |-> IF d[k][1] = key THEN <<key, value>> ELSE d[k]]
    ELSE Append(d, <<key, value>>)

\* pd.DataFrame()
EmptyDataFrame == [index |-> <<>>, columns |-> <<>>, values |-> <<>>]

\* np.zeros((n, n))
np_zeros(n) == [i \in 1..n |-> [j \in 1..n |-> Zero]]

\* [(i, j) for i in range(n) for j in range(n)]: both orders of every pair
RECURSIVE PairsFrom_both_orders(_, _, _)
PairsFrom_both_orders(i, j, n) ==
    IF i >= n THEN <<>>
    ELSE IF j >= n THEN PairsFrom_both_orders(i + 1, 0, n)
    ELSE <<<<i, j>>>> \o PairsFrom_both_orders(i, j + 1, n)

\* [(i, j) for i in range(n) for j in range(i, n)]
RECURSIVE PairsFrom(_, _, _)
PairsFrom(i, j, n) ==
    IF i >= n THEN <<>>
    ELSE IF j >= n THEN PairsFrom(i + 1, i + 1, n)
    ELSE <<<<i, j>>>> \o PairsFrom(i, j + 1, n)

\* matrix after matrix[i, j] = value (i, j from 0)
SetCell(matrix, i, j, value) ==
    [matrix EXCEPT ![i + 1] = [@ EXCEPT ![j + 1] = value]]

\* a round of the loop over the pairs that does not write the mirrored cell
PairStep_no_mirror(names, vocab_sets, st, i, j) ==
    IF i = j
    THEN [st EXCEPT !.matrix = SetCell(@, i, j, One),
                    !.written = @ \cup {<<i, j>>}]
    ELSE LET set_i == DictGet(vocab_sets, names[i + 1])
             set_j == DictGet(vocab_sets, names[j + 1])
             intersection == Cardinality(set_i \cap set_j)
             union == Cardinality(set_i \cup set_j)
             jaccard == IF union > 0 THEN Div(intersection, union) ELSE Zero
         IN [matrix |-> SetCell(st.matrix, i, j, jaccard),
             written |-> st.written \cup {<<i, j>>},
             computed |-> Append(st.computed, <<i, j>>)]

\* a round of the loop over the pairs that divides the intersection by the
\* smaller vocabulary instead of the union
PairStep_smaller_set(names, vocab_sets, st, i, j) ==
    IF i = j
    THEN [st EXCEPT !.matrix = SetCell(@, i, j, One),
                    !.written = @ \cup {<<i, j>>}]
    ELSE LET set_i == DictGet(vocab_sets, names[i + 1])
             set_j == DictGet(vocab_sets, names[j + 1])
             intersection == Cardinality(set_i \cap set_j)
             smaller == Min(Cardinality(set_i), Cardinality(set_j))
             jaccard == IF smaller > 0 THEN Div(intersection, smaller) ELSE Zero
         IN [matrix |-> SetCell(SetCell(st.matrix, i, j, jaccard), j, i, jaccard),
             written |-> st.written \cup {<<i, j>>, <<j, i>>},
             computed |-> Append(st.computed, <<i, j>>)]

\* one round of the loop over the pairs: the cell(s) of the pair (i, j) are
\* written; written and computed record which cells were assigned and for
\* which pairs a Jaccard value was computed
PairStep(names, vocab_sets, st, i, j) ==
    IF i = j
    THEN [st EXCEPT !.matrix = SetCell(@, i, j, One),
                    !.written = @ \cup {<<i, j>>}]
    ELSE LET set_i == DictGet(vocab_sets, names[i + 1])
             set_j == DictGet(vocab_sets, names[j + 1])
             intersection == Cardinality(set_i \cap set_j)
             union == Cardinality(set_i \cup set_j)
             jaccard == IF union > 0 THEN Div(intersection, union) ELSE Zero
         IN [matrix |-> SetCell(SetCell(st.matrix, i, j, jaccard), j, i, jaccard),
             written |-> st.written \cup {<<i, j>>, <<j, i>>},
             computed |-> Append(st.computed, <<i, j>>)]

\* for i, j in pairs
RECURSIVE PairLoop(_, _, _, _)
PairLoop(names, vocab_sets, st, pairs) ==
    IF pairs = <<>> THEN st
    ELSE PairLoop(names, vocab_sets,
                  PairStep(names, vocab_sets, st, Head(pairs)[1], Head(pairs)[2]),
                  Tail(pairs))

\* the loop of compute_pairwise_similarity over all pairs, from np.zeros
PairwiseScan(corp) ==
    LET names == Keys(corp)
        n == Len(names)
        vocab_sets == [k \in DOMAIN corp |-> <<corp[k][1], PySet(corp[k][2])>>]
    IN PairLoop(names, vocab_sets,
                [matrix |-> np_zeros(n), written |-> {}, computed |-> <<>>],
                PairsFrom(0, 0, n))

compute_pairwise_similarity(corp) ==
    IF corp = <<>> THEN EmptyDataFrame
    ELSE [index |-> Keys(corp), columns |-> Keys(corp),
          values |-> PairwiseScan(corp).matrix]

(***************************************************************************)
(* parallel_nlp.ParallelCorpusAnalyzer: the record of one corpus.  What a  *)
(* call comes to is Ok(value) or Raise(exception).                         *)
(***************************************************************************)
Ok(value) == [raises |-> FALSE, value |-> value]
Raise(exception) == [raises |-> TRUE, value |-> exception]

\* the object None as a token: it is no str and has no len()
PyNone == "<None>"

\* the keys of a record of corpus metrics, in the order of the dict
MetricNames ==
    <<"n_tokens", "vocab_size", "ttr", "root_ttr", "log_ttr", "hapax_ratio",
      "yules_k", "simpsons_d", "entropy", "norm_entropy", "perplexity",
      "avg_word_len">>

_empty_result ==
    [n_tokens |-> Zero, vocab_size |-> Zero, ttr |-> Zero, root_ttr |-> Zero,
     log_ttr |-> Zero, hapax_ratio |-> Zero, yules_k |-> Zero,
     simpsons_d |-> Zero, entropy |-> Zero, norm_entropy |-> Zero,
     perplexity |-> Zero, avg_word_len |-> Zero]

\* _compute_corpus_stats up to the dict it returns; len(t) of a token that
\* is no str raises TypeError
_compute_corpus_stats(toks) ==
    LET n == Len(toks)
        freq == Counter(toks)
        vocab_size == Cardinality(DOMAIN freq)
        hapax == Cardinality({w \in DOMAIN freq : freq[w] = 1})
        ttr == Div(vocab_size, n)
        root_ttr_ == FDiv(Float(vocab_size), Sqrt(Float(n)))
        log_ttr_ == IF n > 1 /\ vocab_size > 1
                    THEN FDiv(Ln(Float(vocab_size)), Ln(Float(n)))
                    ELSE Zero
        hapax_ratio == Div(hapax, n)
        term == [w \in DOMAIN freq |->
                    LET p == Div(freq[w], n)
                    IN IF FLess(Zero, p) THEN FMul(p, Log2(p)) ELSE Zero]
        entropy == FSub(Zero, FSumOver(DOMAIN freq, term))
        max_entropy == IF vocab_size > 1 THEN Log2(Float(vocab_size)) ELSE One
        norm_entropy == IF FLess(Zero, max_entropy)
                        THEN FDiv(entropy, max_entropy) ELSE Zero
        m1 == n
        m2 == SumOver(DOMAIN freq, [w \in DOMAIN freq |-> freq[w] * freq[w]])
        yules_k_ == Div(10000 * (m2 - m1), m1 * m1)
        simpsons_d_ ==
            IF n > 1
            THEN FSub(One, Div(SumOver(DOMAIN freq,
                                   [w \in DOMAIN freq |-> freq[w] * (freq[w] - 1)]),
                               n * (n - 1)))
            ELSE Zero
        perplexity == IF FLess(Zero, entropy) THEN Exp2(entropy) ELSE One
        lengths == [k \in DOMAIN toks |-> Len(Code[toks[k]])]
    IN IF n = 0 THEN Ok(_empty_result)
       ELSE IF \E k \in DOMAIN toks : toks[k] \notin DOMAIN Code
       THEN Raise("TypeError")
       ELSE Ok([n_tokens |-> Float(n), vocab_size |-> Float(vocab_size),
                ttr |-> ttr, root_ttr |-> root_ttr_, log_ttr |-> log_ttr_,
                hapax_ratio |-> hapax_ratio, yules_k |-> yules_k_,
                simpsons_d |-> simpsons_d_, entropy |-> entropy,
                norm_entropy |-> norm_entropy, perplexity |-> perplexity,
                avg_word_len |->
                    Div(SumOver(DOMAIN toks, lengths), n)])

\* pd.DataFrame(results).T: one row per key of results, one column per
\* metric
DataFrameT(res) ==
    [index |-> Keys(res),
     columns |-> MetricNames,
     values |-> [k \in DOMAIN res |->
                    [c \in DOMAIN MetricNames |-> res[k][2][MetricNames[c]]]]]

\* results when the row of a corpus whose computation raised is filled with
\* nan instead
StoreOutcome_nan_row(res, name, outcome) ==
    IF outcome.raises
    THEN DictSet(res, name, [c \in DOMAIN _empty_result |-> NaN])
    ELSE DictSet(res, name, outcome.value)

\* results when a row is stored under the name of the corpus at the place
\* of the completion instead of the name the future was submitted for
StoreOutcome_completion_order(res, name, outcome) ==
    LET at == corpora[Len(res) + 1][1]
    IN IF outcome.raises THEN DictSet(res, at, _empty_result)
       ELSE DictSet(res, at, outcome.value)

\* results after
\*     try: results[name] = <the outcome of the computation>
\*     except Exception: results[name] = self._empty_result()
StoreOutcome(res, name, outcome) ==
    IF outcome.raises THEN DictSet(res, name, _empty_result)
    ELSE DictSet(res, name, outcome.value)

(***************************************************************************)
(* Specification of the cross-corpus comparator: two token lists are       *)
(* drawn and vocabulary_overlap is called on them, in either order.        *)
(***************************************************************************)
\* a call of a pure function returns: the function, its scalar parameters
\* and its return value are recorded, the inputs are as they were
Returns(function, parameters, value) ==
    /\ call' = function
    /\ args' = parameters
    /\ ret' = value
    /\ UNCHANGED frame

InitOverlap ==
    /\ tokens1 \in SeqsUpTo(Tokens, MaxOverlapLen)
    /\ tokens2 \in SeqsUpTo(Tokens, MaxOverlapLen)
    /\ tokens = <<>>
    /\ token_lists = <<>>
    /\ supplied_vocab = None
    /\ corpora = <<>>
    /\ HAS_TORCH = FALSE
    /\ torch_lstsq = FALSE
    /\ NoBatch
    /\ call = "none"
    /\ args = NoArgs
    /\ ret = NoArgs

Call_vocabulary_overlap ==
    /\ call = "none"
    /\ Returns("vocabulary_overlap", NoArgs, vocabulary_overlap(tokens1, tokens2))

NextOverlap == Call_vocabulary_overlap

SpecOverlap == InitOverlap /\ [][NextOverlap]_vars

(***************************************************************************)
(* Specification of the one-sequence functions: a token sequence is drawn  *)
(* and one of the functions is called on it, with parameters drawn from    *)
(* small ranges and the code's defaults.                                   *)
(***************************************************************************)
InitStats ==
    /\ tokens \in SeqsUpTo(StatTokens, MaxLen)
    /\ tokens1 = <<>>
    /\ tokens2 = <<>>
    /\ token_lists = <<>>
    /\ supplied_vocab = None
    /\ corpora = <<>>
    /\ HAS_TORCH = FALSE
    /\ torch_lstsq = FALSE
    /\ NoBatch
    /\ call = "none"
    /\ args = NoArgs
    /\ ret = NoArgs

WindowSizes == (1..MaxWindow) \cup {DefaultWindowSize}

PmiWindows == (0..MaxWindow) \cup {DefaultPmiWindow}

MinFreqs == (1..MaxMinFreq) \cup {DefaultMinFreq}

Call_type_token_ratio ==
    /\ call = "none"
    /\ Returns("type_token_ratio", NoArgs, type_token_ratio(tokens))

Call_root_ttr ==
    /\ call = "none"
    /\ Returns("root_ttr", NoArgs, root_ttr(tokens))

Call_log_ttr ==
    /\ call = "none"
    /\ Returns("log_ttr", NoArgs, log_ttr(tokens))

Call_moving_average_ttr ==
    \E window_size \in WindowSizes :
        /\ call = "none"
        /\ Returns("moving_average_ttr", [window_size |-> window_size],
               moving_average_ttr(tokens, window_size))

Call_hapax_legomena_ratio ==
    /\ call = "none"
    /\ Returns("hapax_legomena_ratio", NoArgs, hapax_legomena_ratio(tokens))

Call_yules_k ==
    /\ call = "none"
    /\ Returns("yules_k", NoArgs, yules_k(tokens))

Call_simpsons_d ==
    /\ call = "none"
    /\ Returns("simpsons_d", NoArgs, simpsons_d(tokens))

Call_shannon_entropy ==
    /\ call = "none"
    /\ Returns("shannon_entropy", NoArgs, shannon_entropy(tokens))

Call_normalized_entropy ==
    /\ call = "none"
    /\ Returns("normalized_entropy", NoArgs, normalized_entropy(tokens))

Call_conditional_entropy_bigrams ==
    /\ call = "none"
    /\ Returns("conditional_entropy_bigrams", NoArgs,
               conditional_entropy_bigrams(tokens))

Call_perplexity_unigram ==
    /\ call = "none"
    /\ Returns("perplexity_unigram", NoArgs, perplexity_unigram(tokens))

Call_burstiness ==
    \E target_word \in StatTokens :
        /\ call = "none"
        /\ Returns("burstiness", [target_word |-> target_word],
               burstiness(tokens, target_word))

Call_average_burstiness ==
    \E min_freq \in MinFreqs :
        /\ call = "none"
        /\ Returns("average_burstiness", [min_freq |-> min_freq],
               average_burstiness(tokens, min_freq))

Call_word_frequency_distribution ==
    /\ call = "none"
    /\ Returns("word_frequency_distribution", NoArgs,
               word_frequency_distribution(tokens))

Call_pointwise_mutual_information ==
    \E word1 \in StatTokens, word2 \in StatTokens, window_size \in PmiWindows :
        /\ call = "none"
        /\ Returns("pointwise_mutual_information",
               [word1 |-> word1, word2 |-> word2, window_size |-> window_size],
               pointwise_mutual_information(tokens, word1, word2, window_size))

Call_zipfs_law_analysis ==
    /\ call = "none"
    /\ Returns("zipfs_law_analysis", NoArgs, zipfs_law_analysis(tokens))

Call__compute_corpus_stats ==
    /\ call = "none"
    /\ Returns("_compute_corpus_stats", NoArgs, _compute_corpus_stats(tokens))

NextStats ==
    \/ Call_type_token_ratio
    \/ Call_root_ttr
    \/ Call_log_ttr
    \/ Call_moving_average_ttr
    \/ Call_hapax_legomena_ratio
    \/ Call_yules_k
    \/ Call_simpsons_d
    \/ Call_shannon_entropy
    \/ Call_normalized_entropy
    \/ Call_conditional_entropy_bigrams
    \/ Call_perplexity_unigram
    \/ Call_burstiness
    \/ Call_average_burstiness
    \/ Call_word_frequency_distribution
    \/ Call_pointwise_mutual_information
    \/ Call_zipfs_law_analysis
    \/ Call__compute_corpus_stats

SpecStats == InitStats /\ [][NextStats]_vars

(***************************************************************************)
(* Specification of the calls with a malformed argument: the argument is   *)
(* None, an int, or a list that holds a token that is no str (None, which  *)
(* can be hashed, or a list, which cannot), and one of the diversity and   *)
(* entropy functions of one token sequence is called on it.  Here tokens   *)
(* holds the Python object with its type, and what the call comes to is    *)
(* Ok(value) or Raise(exception).                                          *)
(***************************************************************************)
\* the list ['a'] as a token: it is no str and hashing it raises TypeError
PyList == "<['a']>"

\* how each function uses its argument: the first thing it does with it is
\* the truth test "not tokens" or the call len(tokens), and it hashes the
\* tokens (set(tokens), Counter(tokens)) from hashed_from tokens on
ArgumentUse ==
    [type_token_ratio |-> [test |-> "not", hashed_from |-> 1],
     root_ttr |-> [test |-> "not", hashed_from |-> 1],
     log_ttr |-> [test |-> "len", hashed_from |-> 2],
     moving_average_ttr |-> [test |-> "len", hashed_from |-> 1],
     hapax_legomena_ratio |-> [test |-> "not", hashed_from |-> 1],
     yules_k |-> [test |-> "len", hashed_from |-> 2],
     simpsons_d |-> [test |-> "len", hashed_from |-> 2],
     shannon_entropy |-> [test |-> "not", hashed_from |-> 1],
     normalized_entropy |-> [test |-> "not", hashed_from |-> 1],
     conditional_entropy_bigrams |-> [test |-> "len", hashed_from |-> 2],
     perplexity_unigram |-> [test |-> "not", hashed_from |-> 1]]

\* function(items) for a list of tokens
CoreFunction(function, items, window_size) ==
    CASE function = "type_token_ratio" -> type_token_ratio(items)
      [] function = "root_ttr" -> root_ttr(items)
      [] function = "log_ttr" -> log_ttr(items)
      [] function = "moving_average_ttr" -> moving_average_ttr(items, window_size)
      [] function = "hapax_legomena_ratio" -> hapax_legomena_ratio(items)
      [] function = "yules_k" -> yules_k(items)
      [] function = "simpsons_d" -> simpsons_d(items)
      [] function = "shannon_entropy" -> shannon_entropy(items)
      [] function = "normalized_entropy" -> normalized_entropy(items)
      [] function = "conditional_entropy_bigrams" ->
             conditional_entropy_bigrams(items)
      [] function = "perplexity_unigram" -> perplexity_unigram(items)

\* function(obj) for any Python object: None is false and has no len(); an
\* int that is not 0 is true, has no len() and cannot be iterated; a list is
\* processed as it is, its tokens are not looked at before they are hashed
PyCall(function, obj, window_size) ==
    LET use == ArgumentUse[function]
    IN CASE obj.type = "NoneType" ->
                IF use.test = "not"
                THEN Ok(CoreFunction(function, <<>>, window_size))
                ELSE Raise("TypeError")
         [] obj.type = "int" -> Raise("TypeError")
         [] obj.type = "list" ->
                IF /\ Len(obj.items) >= use.hashed_from
                   /\ \E k \in DOMAIN obj.items : obj.items[k] = PyList
                THEN Raise("TypeError")
                ELSE Ok(CoreFunction(function, obj.items, window_size))

InitMalformed ==
    /\ tokens \in
         {[type |-> "NoneType"], [type |-> "int"]} \cup
         {[type |-> "list", items |-> items] :
             items \in {s \in SeqsUpTo({"a", PyNone, PyList}, 2) :
                           \E k \in DOMAIN s : s[k] # "a"}}
    /\ tokens1 = <<>>
    /\ tokens2 = <<>>
    /\ token_lists = <<>>
    /\ supplied_vocab = None
    /\ corpora = <<>>
    /\ HAS_TORCH = FALSE
    /\ torch_lstsq = FALSE
    /\ NoBatch
    /\ call = "none"
    /\ args = NoArgs
    /\ ret = NoArgs

Call_core_function ==
    \E function \in DOMAIN ArgumentUse, window_size \in WindowSizes :
        /\ call = "none"
        /\ function # "moving_average_ttr" => window_size = DefaultWindowSize
        /\ Returns(function,
                   IF function = "moving_average_ttr"
                   THEN [window_size |-> window_size] ELSE NoArgs,
                   PyCall(function, tokens, window_size))

SpecMalformed == InitMalformed /\ [][Call_core_function]_vars

(***************************************************************************)
(* Specification of the Heaps' law sampler: a token sequence is drawn and  *)
(* heaps_law_analysis is called on it, in an interpreter with or without   *)
(* torch.                                                                  *)
(***************************************************************************)
InitHeaps ==
    /\ tokens \in SeqsUpTo(StatTokens, MaxLen)
    /\ tokens1 = <<>>
    /\ tokens2 = <<>>
    /\ token_lists = <<>>
    /\ supplied_vocab = None
    /\ corpora = <<>>
    /\ HAS_TORCH \in BOOLEAN
    /\ torch_lstsq \in {b \in BOOLEAN : b => HAS_TORCH}
    /\ NoBatch
    /\ call = "none"
    /\ args = NoArgs
    /\ ret = NoArgs

Steps == (0..MaxStep) \cup {DefaultStep}

Call_heaps_law_analysis ==
    \E step \in Steps, use_gpu \in BOOLEAN :
        /\ call = "none"
        /\ Returns("heaps_law_analysis", [step |-> step, use_gpu |-> use_gpu],
               heaps_law_analysis(tokens, step, use_gpu))

NextHeaps == Call_heaps_law_analysis

SpecHeaps == InitHeaps /\ [][NextHeaps]_vars

(***************************************************************************)
(* Specification of the document-term matrix builder: a list of documents  *)
(* and a vocabulary argument (None, or a list of words) are drawn and       *)
(* compute_frequency_matrix_gpu is called on them.                         *)
(***************************************************************************)
MatrixTokens == {"a", "b", "c"}

\* the vocabularies a caller supplies: with a word no document holds, with
\* a word missing, with a repeated word, empty
Vocabularies ==
    {<<>>, <<"b", "a">>, <<"a", "c", "a">>, <<"c", "ab", "B">>, <<"b", "b", "a", "c">>}

InitMatrix ==
    /\ tokens = <<>>
    /\ tokens1 = <<>>
    /\ tokens2 = <<>>
    /\ token_lists \in SeqsUpTo(SeqsUpTo(MatrixTokens, MaxDocLen), MaxDocs)
    /\ supplied_vocab \in {None} \cup {Some(v) : v \in Vocabularies}
    /\ corpora = <<>>
    /\ HAS_TORCH = FALSE
    /\ torch_lstsq = FALSE
    /\ NoBatch
    /\ call = "none"
    /\ args = NoArgs
    /\ ret = NoArgs

Call_compute_frequency_matrix_gpu ==
    /\ call = "none"
    /\ Returns("compute_frequency_matrix_gpu", NoArgs,
               compute_frequency_matrix_gpu(token_lists, supplied_vocab))

NextMatrix == Call_compute_frequency_matrix_gpu

SpecMatrix == InitMatrix /\ [][NextMatrix]_vars

(***************************************************************************)
(* Specification of the all-pairs similarity builder: a dict of corpora is *)
(* drawn and compute_pairwise_similarity is called on it.                  *)
(***************************************************************************)
CorpusNames == <<"c1", "c2", "c3", "c4", "c5">>

\* the token lists of the corpora: empty, disjoint, overlapping, with a
\* repeated token
SimTokenLists ==
    {<<>>, <<"a">>, <<"b">>, <<"a", "b">>, <<"b", "c", "b">>}

\* the dicts of n corpora, named in order, with their token lists in values
CorporaOf(values, n) ==
    {[k \in 1..n |-> <<CorpusNames[k], toks[k]>>] : toks \in [1..n -> values]}

InitSim ==
    /\ tokens = <<>>
    /\ tokens1 = <<>>
    /\ tokens2 = <<>>
    /\ token_lists = <<>>
    /\ supplied_vocab = None
    /\ corpora \in UNION {CorporaOf(SimTokenLists, n) : n \in 0..MaxCorpora}
    /\ HAS_TORCH = FALSE
    /\ torch_lstsq = FALSE
    /\ NoBatch
    /\ call = "none"
    /\ args = NoArgs
    /\ ret = NoArgs

Call_compute_pairwise_similarity ==
    /\ call = "none"
    /\ Returns("compute_pairwise_similarity", NoArgs,
               compute_pairwise_similarity(corpora))

NextSim == Call_compute_pairwise_similarity

SpecSim == InitSim /\ [][NextSim]_vars

(***************************************************************************)
(* Specification of the threaded corpus aggregator: a dict of corpora is   *)
(* drawn, some of which hold a token that is no str and some of which are  *)
(* so that their computation never finishes, and analyze_corpora_parallel  *)
(* is called on it.  The calling thread submits one future per corpus,     *)
(* takes the futures as they complete and returns the frame of the         *)
(* results; the worker threads of the executor run the computations.  A    *)
(* thread that cannot be started makes submit raise, which sends the       *)
(* calling thread to the sequential loop.  _compute_corpus_stats is a      *)
(* function of the tokens alone: computed holds, from the start, what it   *)
(* comes to for each corpus, and a computation that ends takes its outcome *)
(* from there.                                                             *)
(***************************************************************************)
\* the token lists of the corpora: empty, well-formed, holding None
BatchTokenLists == {<<>>, <<"a", "ab", "a">>, <<"b", PyNone>>}

InitBatch ==
    /\ tokens = <<>>
    /\ tokens1 = <<>>
    /\ tokens2 = <<>>
    /\ token_lists = <<>>
    /\ supplied_vocab = None
    /\ corpora \in UNION {CorporaOf(BatchTokenLists, n) : n \in 0..MaxBatch}
    /\ HAS_TORCH = FALSE
    /\ torch_lstsq = FALSE
    /\ stuck \in SUBSET {corpora[k][1] : k \in DOMAIN corpora}
    /\ computed = [k \in DOMAIN corpora |->
                      <<corpora[k][1], _compute_corpus_stats(corpora[k][2])>>]
    /\ pc = "idle"
    /\ futures = <<>>
    /\ threads = 0
    /\ results = <<>>
    /\ call = "none"
    /\ args = NoArgs
    /\ ret = NoArgs

inputs == <<tokens, tokens1, tokens2, token_lists, supplied_vocab, corpora,
            HAS_TORCH, torch_lstsq, stuck, computed, args>>

max_workers == Min(MaxWorkers, Len(corpora))

Unfinished == {f \in DOMAIN futures : futures[f].state # "FINISHED"}

Running == {f \in DOMAIN futures : futures[f].state = "RUNNING"}

\* analyze_corpora_parallel is entered: without corpora it returns an empty
\* frame, else it creates the executor
Call_analyze_corpora_parallel ==
    /\ call = "none"
    /\ call' = "analyze_corpora_parallel"
    /\ IF corpora = <<>>
       THEN pc' = "returned" /\ ret' = EmptyDataFrame
       ELSE pc' = "submit" /\ ret' = ret
    /\ UNCHANGED <<inputs, futures, threads, results>>

\* executor.submit(self._compute_corpus_stats, tokens) for the next corpus:
\* the work is queued and a worker thread is started unless max_workers are
\* running; after the last corpus the futures dict is complete
Submit ==
    /\ pc = "submit"
    /\ LET name == corpora[Len(futures) + 1][1]
       IN futures' = Append(futures, [name |-> name, state |-> "PENDING",
                                      outcome |-> None, yielded |-> FALSE])
    /\ threads' = IF threads < max_workers THEN threads + 1 ELSE threads
    /\ pc' = IF Len(futures) + 1 = Len(corpora) THEN "as_completed" ELSE "submit"
    /\ UNCHANGED <<inputs, results, call, ret>>

\* executor.submit raises RuntimeError: the work is queued but the thread
\* for it cannot be started; the exception leaves the with block
SubmitRaises ==
    /\ pc = "submit"
    /\ threads < max_workers
    /\ LET name == corpora[Len(futures) + 1][1]
       IN futures' = Append(futures, [name |-> name, state |-> "PENDING",
                                      outcome |-> None, yielded |-> FALSE])
    /\ pc' = "exit_raised"
    /\ UNCHANGED <<inputs, threads, results, call, ret>>

\* a worker thread takes the oldest queued work
WorkerStart ==
    \E f \in DOMAIN futures :
        /\ futures[f].state = "PENDING"
        /\ \A g \in 1..(f - 1) : futures[g].state # "PENDING"
        /\ Cardinality(Running) < threads
        /\ futures' = [futures EXCEPT ![f].state = "RUNNING"]
        /\ UNCHANGED <<inputs, pc, threads, results, call, ret>>

\* a worker thread ends its computation and sets the future's result or
\* exception
WorkerFinish ==
    \E f \in DOMAIN futures :
        /\ futures[f].state = "RUNNING"
        /\ futures[f].name \notin stuck
        /\ futures' = [futures EXCEPT
               ![f].state = "FINISHED",
               ![f].outcome = Some(DictGet(computed, futures[f].name))]
        /\ UNCHANGED <<inputs, pc, threads, results, call, ret>>

\* a round of "for future in as_completed(futures)": as_completed waits,
\* without a timeout, for the next finished future, future.result(timeout=60)
\* of that future returns or raises at once and the row is stored; after the
\* last future the with block is left
Collect ==
    \E f \in DOMAIN futures :
        /\ pc = "as_completed"
        /\ futures[f].state = "FINISHED"
        /\ ~futures[f].yielded
        /\ futures' = [futures EXCEPT ![f].yielded = TRUE]
        /\ results' = StoreOutcome(results, futures[f].name, futures[f].outcome[1])
        /\ pc' = IF \A g \in DOMAIN futures \ {f} : futures[g].yielded
                 THEN "exit" ELSE "as_completed"
        /\ UNCHANGED <<inputs, threads, call, ret>>

\* the end of the with block, executor.shutdown(wait=True): the worker
\* threads end the queued work and are joined; then the results are
\* returned, or the exception that left the block is handled
ExitWith ==
    /\ pc \in {"exit", "exit_raised"}
    /\ threads = 0 \/ Unfinished = {}
    /\ pc' = IF pc = "exit" THEN "return" ELSE "sequential"
    /\ UNCHANGED <<inputs, futures, threads, results, call, ret>>

\* a round of the sequential loop, for the next corpus of corpora.items()
Sequential ==
    /\ pc = "sequential"
    /\ LET k == Len(results) + 1
           name == corpora[k][1]
       IN /\ name \notin stuck
          /\ results' = StoreOutcome(results, name, DictGet(computed, name))
          /\ pc' = IF k = Len(corpora) THEN "return" ELSE "sequential"
    /\ UNCHANGED <<inputs, futures, threads, call, ret>>

\* return pd.DataFrame(results).T
Return ==
    /\ pc = "return"
    /\ ret' = DataFrameT(results)
    /\ pc' = "returned"
    /\ UNCHANGED <<inputs, futures, threads, results, call>>

CallingThread ==
    \/ Call_analyze_corpora_parallel
    \/ Submit
    \/ Collect
    \/ ExitWith
    \/ Sequential
    \/ Return

WorkerThreads ==
    \/ WorkerStart
    \/ WorkerFinish

NextBatch ==
    \/ CallingThread
    \/ SubmitRaises
    \/ WorkerThreads

SpecBatch == InitBatch /\ [][NextBatch]_vars

\* every thread that can take a step eventually takes one: the calling
\* thread and the workers are scheduled by the operating system
FairSpecBatch ==
    /\ InitBatch
    /\ [][NextBatch]_vars
    /\ WF_vars(CallingThread)
    /\ WF_vars(WorkerThreads)

(***************************************************************************)
(* Claims.                                                                 *)
(***************************************************************************)

\* C4: for all token sequences A and B, the jaccard_similarity of
\* vocabulary_overlap(A, B) equals the jaccard_similarity of
\* vocabulary_overlap(B, A).
C4_JaccardSymmetric ==
    call = "vocabulary_overlap" =>
        ret.jaccard_similarity =
            vocabulary_overlap(tokens2, tokens1).jaccard_similarity

\* a call on two lists of different vocabulary sizes that share a token
C4_Witness ==
    /\ call = "vocabulary_overlap"
    /\ Cardinality(PySet(tokens1)) < Cardinality(PySet(tokens2))
    /\ ret.shared_vocab > 0

\* v is the float n / d, and 0.0 when d = 0; never a raised division
IsRatio(v, n, d) ==
    IF d = 0 THEN v = <<0, 1>>
    ELSE v[2] > 0 /\ v[1] * d = n * v[2]

\* C5: with A and B the distinct-type sets of the two sequences,
\* vocabulary_overlap returns jaccard |A&B|/|A|B|, dice 2|A&B|/(|A|+|B|),
\* overlap coefficient |A&B|/min(|A|,|B|), the coverages |A&B|/|A| and
\* |A&B|/|B| and the counts |A\B|, |B\A|, |A&B|; a ratio with an empty
\* denominator is 0.0 and no division by zero occurs.
C5_OverlapFormulas ==
    call = "vocabulary_overlap" =>
        LET A == {tokens1[i] : i \in 1..Len(tokens1)}
            B == {tokens2[i] : i \in 1..Len(tokens2)}
            nA == Cardinality(A)
            nB == Cardinality(B)
            nI == Cardinality(A \cap B)
        IN /\ IsRatio(ret.jaccard_similarity, nI, Cardinality(A \cup B))
           /\ IsRatio(ret.dice_coefficient, 2 * nI, nA + nB)
           /\ IsRatio(ret.overlap_coefficient, nI, IF nA <= nB THEN nA ELSE nB)
           /\ IsRatio(ret.vocab1_coverage, nI, nA)
           /\ IsRatio(ret.vocab2_coverage, nI, nB)
           /\ ret.unique_to_vocab1 = Cardinality(A \ B)
           /\ ret.unique_to_vocab2 = Cardinality(B \ A)
           /\ ret.shared_vocab = nI

\* the example of the specification: [a,b,c] against [b,c,d]
C5_Witness ==
    /\ call = "vocabulary_overlap"
    /\ tokens1 = <<"a", "b", "c">>
    /\ tokens2 = <<"b", "c", "d">>
    /\ ret.jaccard_similarity = <<1, 2>>
    /\ ret.dice_coefficient = <<2, 3>>
    /\ ret.overlap_coefficient = <<2, 3>>

\* no token occurs twice in the sequence
AllDistinct(seq) == \A i, j \in 1..Len(seq) : seq[i] = seq[j] => i = j

\* C8: for every non-empty token sequence 0 <= type_token_ratio <= 1 (and
\* it is positive, as 0 < V <= N), and type_token_ratio is 1.0 exactly when
\* all tokens are distinct.
C8_TtrBounds ==
    (call = "type_token_ratio" /\ tokens # <<>>) =>
        /\ ret[2] > 0
        /\ 0 < ret[1]
        /\ ret[1] <= ret[2]
        /\ (ret = <<1, 1>>) <=> AllDistinct(tokens)

\* a sequence that repeats a token, with a ratio strictly between 0 and 1
C8_Witness ==
    /\ call = "type_token_ratio"
    /\ Len(tokens) = 3
    /\ ~AllDistinct(tokens)
    /\ ret = <<2, 3>>

\* the diversity and entropy functions C9 lists
C9Functions ==
    {"type_token_ratio", "root_ttr", "log_ttr", "moving_average_ttr",
     "hapax_legomena_ratio", "yules_k", "simpsons_d", "shannon_entropy",
     "normalized_entropy", "conditional_entropy_bigrams",
     "perplexity_unigram", "burstiness", "average_burstiness",
     "word_frequency_distribution", "pointwise_mutual_information"}

\* C9 as stated: on the empty token sequence every listed function returns
\* the sentinel 0.0.
C9_AllReturnZero ==
    (tokens = <<>> /\ call \in C9Functions) => ret = <<0, 1>>

\* C9, amended: on the empty token sequence every listed function returns
\* its sentinel without raising and without NaN; the sentinel is 0.0 except
\* for perplexity_unigram, whose sentinel is 1.0, and for
\* word_frequency_distribution, which returns the empty mapping.
C9_EmptySentinels ==
    (tokens = <<>> /\ call \in C9Functions) =>
        ret = CASE call = "perplexity_unigram" -> <<1, 1>>
                [] call = "word_frequency_distribution" -> <<>>
                [] OTHER -> <<0, 1>>

\* the empty sequence passed to a function that divides by the number of
\* tokens on its main path
C9_Witness ==
    /\ tokens = <<>>
    /\ call = "type_token_ratio"
    /\ ret = <<0, 1>>

\* a call of heaps_law_analysis returned its tuple (it did not raise)
HeapsReturned == call = "heaps_law_analysis" /\ Len(ret) = 4

NonDecreasing(a) == \A i, j \in DOMAIN a : i <= j => a[i] <= a[j]

\* C6: for every token sequence and every step >= 1, corpus_sizes and
\* vocab_sizes as returned by heaps_law_analysis are both non-decreasing, and
\* vocab_sizes[i] <= corpus_sizes[i] at every index i.  The call returns
\* unless it took the torch path to a regression that torch cannot do.
C6_HeapsMonotone ==
    (call = "heaps_law_analysis" /\ args.step >= 1) =>
        /\ Len(ret) = 4 \/ (args.use_gpu /\ HAS_TORCH /\ ~torch_lstsq)
        /\ Len(ret) = 4 =>
              /\ NonDecreasing(ret[1])
              /\ NonDecreasing(ret[2])
              /\ DOMAIN ret[2] = DOMAIN ret[1]
              /\ \A i \in DOMAIN ret[1] : ret[2][i] <= ret[1][i]

\* C6 witness: a call sampled three windows, the last of which brought no
\* new token
C6_Witness ==
    /\ HeapsReturned
    /\ args.step >= 1
    /\ Len(ret[1]) = 3
    /\ ret[2][3] = ret[2][2]
    /\ ret[2][2] > ret[2][1]

\* C7: with fewer tokens than step (the empty sequence included)
\* heaps_law_analysis returns the one-point series ([N], [V]), N the number
\* of tokens and V the number of distinct tokens, with K = 0.0 and
\* beta = 0.0: it does not raise and no regression coefficient is computed.
C7_ShortInput ==
    (call = "heaps_law_analysis" /\ Len(tokens) < args.step) =>
        ret = <<<<Len(tokens)>>, <<Cardinality({tokens[i] : i \in DOMAIN tokens})>>,
                <<0, 1>>, <<0, 1>>>>

\* C7 witness: a call on the empty sequence returned ([0], [0], 0.0, 0.0)
C7_Witness ==
    /\ HeapsReturned
    /\ tokens = <<>>
    /\ args.step >= 1
    /\ ret[1] = <<0>>

\* the documents with the tokens at positions i and j of document d exchanged
SwapInDocument(tls, d, i, j) ==
    [tls EXCEPT ![d] = [@ EXCEPT ![i] = tls[d][j], ![j] = tls[d][i]]]

\* C10: without a supplied vocabulary the columns of the matrix returned by
\* compute_frequency_matrix_gpu are the distinct tokens of all documents in
\* lexicographic order, and entry (d, j) is the number of occurrences of
\* the j-th of them in document d (0 when absent): [[a,b],[b,c]] gives the
\* columns a, b, c and the matrix [[1,1,0],[0,1,1]].  Exchanging two tokens
\* of a document does not change the result.  (Without any token there is
\* no column and the array returned is empty.)
C10_FrequencyMatrix ==
    (call = "compute_frequency_matrix_gpu" /\ supplied_vocab = <<>>) =>
        LET present(w) == \E d \in DOMAIN token_lists :
                              \E k \in DOMAIN token_lists[d] : token_lists[d][k] = w
            columns == SelectSeq(<<"a", "b", "c">>, present)
            occurrences(d, w) ==
                Cardinality({k \in DOMAIN token_lists[d] : token_lists[d][k] = w})
        IN /\ columns # <<>> =>
                ret = [d \in DOMAIN token_lists |->
                          [j \in DOMAIN columns |-> <<occurrences(d, columns[j]), 1>>]]
           /\ columns = <<>> => ret = <<>>
           /\ token_lists = <<<<"a", "b">>, <<"b", "c">>>> =>
                ret = <<<<<<1, 1>>, <<1, 1>>, <<0, 1>>>>,
                        <<<<0, 1>>, <<1, 1>>, <<1, 1>>>>>>
           /\ \A d \in DOMAIN token_lists : \A i, j \in DOMAIN token_lists[d] :
                compute_frequency_matrix_gpu(
                    SwapInDocument(token_lists, d, i, j), supplied_vocab) = ret

\* C10 witness: the call on [[b,a],[c,b]], the example's documents with their
\* tokens in another order, returned the example's matrix
C10_Witness ==
    /\ call = "compute_frequency_matrix_gpu"
    /\ supplied_vocab = <<>>
    /\ token_lists = <<<<"b", "a">>, <<"c", "b">>>>
    /\ ret = <<<<<<1, 1>>, <<1, 1>>, <<0, 1>>>>, <<<<0, 1>>, <<1, 1>>, <<1, 1>>>>>>

\* C3: for every dict of corpora (corpora without tokens included) the
\* matrix returned by compute_pairwise_similarity has one row and one
\* column per corpus name, in the order of the names, entry (i, j) equals
\* entry (j, i) and every diagonal entry is 1.0.
C3_SimilarityMatrix ==
    call = "compute_pairwise_similarity" =>
        LET n == Len(corpora)
        IN /\ ret.index = [k \in 1..n |-> corpora[k][1]]
           /\ ret.columns = ret.index
           /\ DOMAIN ret.values = 1..n
           /\ \A i \in 1..n : DOMAIN ret.values[i] = 1..n
           /\ \A i, j \in 1..n : ret.values[i][j] = ret.values[j][i]
           /\ \A i \in 1..n : ret.values[i][i] = <<1, 1>>

\* C3 witness: three corpora, one without tokens, two that share one token
\* of two: the entries of that pair are 1/2 on both sides of the diagonal
C3_Witness ==
    /\ call = "compute_pairwise_similarity"
    /\ Len(corpora) = 3
    /\ corpora[1][2] = <<>>
    /\ ret.values[2][3] = <<1, 2>>
    /\ ret.values[3][2] = <<1, 2>>
    /\ ret.values[1][1] = <<1, 1>>

\* the token list of the corpus of a name
TokensOf(name) == corpora[CHOOSE k \in DOMAIN corpora : corpora[k][1] = name][2]

\* the rows of the frame returned for a name
RowsOf(name) == {i \in DOMAIN ret.index : ret.index[i] = name}

AllZeroRow == [c \in 1..12 |-> <<0, 1>>]

\* the computation of a corpus raises: a token of it is no str
ComputationRaises(toks) == \E k \in DOMAIN toks : toks[k] = PyNone

BatchReturned == call = "analyze_corpora_parallel" /\ pc = "returned"

\* C1: analyze_corpora_parallel returns exactly one row per corpus name:
\* the record computed from the tokens of that corpus or, when that
\* computation raises, the all-zero record, whatever happens to the other
\* corpora; and when no computation is stuck the call does return, by the
\* threaded path or by the sequential one.
C1_OneRowPerCorpus ==
    /\ [](BatchReturned =>
            /\ Len(ret.index) = Len(corpora)
            /\ \A k \in DOMAIN corpora :
                 /\ Cardinality(RowsOf(corpora[k][1])) = 1
                 /\ \A i \in RowsOf(corpora[k][1]) :
                      ret.values[i] =
                          IF ComputationRaises(corpora[k][2]) THEN AllZeroRow
                          ELSE DataFrameT(<<<<corpora[k][1],
                                   _compute_corpus_stats(corpora[k][2]).value>>>>).values[1])
    /\ (stuck = {}) => <>BatchReturned

\* C1 witness: the futures of three corpora were collected, the second
\* corpus holds None and has the all-zero row, the first has its own record
C1_Witness ==
    /\ BatchReturned
    /\ Len(corpora) = 3
    /\ \A f \in DOMAIN futures : futures[f].yielded
    /\ ComputationRaises(corpora[2][2])
    /\ \A i \in RowsOf("c2") : ret.values[i] = AllZeroRow
    /\ \A i \in RowsOf("c1") : ret.values[i][1] = <<3, 1>>
    /\ \A i \in RowsOf("c3") : ret.values[i][1] = <<3, 1>>

\* C2: the wait for each corpus is bounded: even when a computation never
\* finishes, analyze_corpora_parallel eventually returns a frame with a row
\* for every corpus, the all-zero row for a corpus whose computation is stuck.
C2_BoundedWait ==
    <>(/\ BatchReturned
       /\ \A k \in DOMAIN corpora :
            /\ RowsOf(corpora[k][1]) # {}
            /\ corpora[k][1] \in stuck =>
                 \A i \in RowsOf(corpora[k][1]) : ret.values[i] = AllZeroRow)

\* C2 witness: the calling thread waits in as_completed for the future of
\* a stuck computation, every other future has been collected, and neither
\* it nor a worker can take a step
C2_Witness ==
    /\ pc = "as_completed"
    /\ Len(futures) = 3
    /\ \E f \in DOMAIN futures :
          /\ futures[f].state = "RUNNING"
          /\ futures[f].name \in stuck
          /\ \A g \in DOMAIN futures \ {f} : futures[g].yielded
    /\ ~ENABLED NextBatch

\* every token of the sequence occurs equally often
Uniform(seq) == \A s, t \in PySet(seq) : Count(seq, s) = Count(seq, t)

\* C11: perplexity_unigram never returns a value below 1.0: it returns
\* exactly 1.0 when the entropy is 0 (the empty sequence, one token, or all
\* tokens identical), and 2 ** H, a value above 1.0, when the entropy H is
\* positive; on a sequence whose V >= 2 distinct tokens are equally frequent
\* that value is V, up to the precision of the arithmetic.
C11_PerplexityAtLeastOne ==
    call = "perplexity_unigram" =>
        LET H == shannon_entropy(tokens)
            V == Cardinality(PySet(tokens))
        IN /\ ~Raised(ret)
           /\ ~FLess(ret, One)
           /\ (H = Zero) <=> (V <= 1)
           /\ (H = Zero) => ret = One
           /\ FLess(Zero, H) => (ret = Exp2(H) /\ FLess(One, ret))
           /\ (V >= 2 /\ Uniform(tokens)) =>
                 /\ FLess(FSub(Float(V), Frac(1, 16)), ret)
                 /\ FLess(ret, FAdd(Float(V), Frac(1, 16)))

\* C11 witness: a sequence of positive entropy whose perplexity lies
\* strictly between 1 and its vocabulary size
C11_Witness ==
    /\ call = "perplexity_unigram"
    /\ tokens = <<"a", "b", "b">>
    /\ FLess(One, ret)
    /\ FLess(ret, Float(2))

\* C12: shannon_entropy(tokens) >= 0 for every input, and it is 0 exactly
\* when the vocabulary has at most one token (the sequence is empty, has one
\* token, or repeats a single token).
C12_EntropyNonNegative ==
    call = "shannon_entropy" =>
        /\ ~Raised(ret)
        /\ ~FLess(ret, Zero)
        /\ (ret = Zero) <=> (Cardinality(PySet(tokens)) <= 1)

\* C12 witness: two tokens, once each, have an entropy of exactly one bit
C12_Witness ==
    /\ call = "shannon_entropy"
    /\ tokens = <<"a", "b">>
    /\ ret = One

\* the frequency values of a sequence, and the number of distinct types
\* that have the frequency i
FreqValues(seq) == {Count(seq, t) : t \in PySet(seq)}

TypesWithFreq(seq, i) == Cardinality({t \in PySet(seq) : Count(seq, t) = i})

\* the sum of g[i] over the integers i of S
RECURSIVE SumOfTerms(_, _)
SumOfTerms(S, g) ==
    IF S = {} THEN 0
    ELSE LET i == CHOOSE k \in S : \A m \in S : k <= m
         IN g[i] + SumOfTerms(S \ {i}, g)

DistinctIn(seq, lo, hi) == Cardinality({seq[j] : j \in lo..hi})

\* C14: for a window size W >= 1 and N >= W tokens, moving_average_ttr is
\* the mean, over exactly the N - W + 1 contiguous windows of length W, of
\* (distinct tokens in the window) / W; for N < W it is the plain
\* type_token_ratio of the whole sequence, 0.0 for the empty sequence.
C14_MovingAverageTtr ==
    (call = "moving_average_ttr" /\ args.window_size >= 1) =>
        LET N == Len(tokens)
            W == args.window_size
            starts == 1..(N - W + 1)
            distinct == SumOfTerms(starts, [k \in starts |->
                                       DistinctIn(tokens, k, k + W - 1)])
        IN /\ N >= W => ret = Div(distinct, W * (N - W + 1))
           /\ (N < W /\ N > 0) => ret = Div(DistinctIn(tokens, 1, N), N)
           /\ N = 0 => ret = Zero

\* C14 witness: three tokens and W = 2 give the two windows (a, a) and
\* (a, b), whose ratios 1/2 and 1 average to 3/4
C14_Witness ==
    /\ call = "moving_average_ttr"
    /\ args.window_size = 2
    /\ tokens = <<"a", "a", "b">>
    /\ ret = <<3, 4>>

\* the position pairs (i, j), 1-based, with word w at the centre i and j
\* another position at most W away from it
WindowSlots(seq, w, W) ==
    {p \in (1..Len(seq)) \X (1..Len(seq)) :
        /\ seq[p[1]] = w
        /\ p[2] # p[1]
        /\ Abs(p[1] - p[2]) <= W}

\* C15: pointwise_mutual_information counts as co-occurrences the position
\* pairs (i, j) with tokens[i] = word1, tokens[j] = word2, j # i and
\* |i - j| <= window_size (the centre is never counted, also when
\* word1 = word2); the count never exceeds the number of non-centre window
\* slots; the result is 0.0 when a word is absent or when the count or the
\* slot total is 0, and log2 of (count / slots) / (P(word1) P(word2))
\* otherwise, so nothing is divided by zero and no log of 0 is taken.
C15_PmiCooccurrences ==
    (call = "pointwise_mutual_information" /\ args.window_size >= 0) =>
        LET N == Len(tokens)
            slots == WindowSlots(tokens, args.word1, args.window_size)
            pairs == {p \in slots : tokens[p[2]] = args.word2}
            absent == \/ Count(tokens, args.word1) = 0
                      \/ Count(tokens, args.word2) = 0
            p_xy == Div(Cardinality(pairs), Cardinality(slots))
            p_x == Div(Count(tokens, args.word1), N)
            p_y == Div(Count(tokens, args.word2), N)
        IN /\ ~Raised(ret)
           /\ Cardinality(pairs) <= Cardinality(slots)
           /\ (absent \/ pairs = {} \/ slots = {}) => ret = Zero
           /\ ~(absent \/ pairs = {} \/ slots = {}) =>
                 /\ FLess(Zero, FDiv(p_xy, FMul(p_x, p_y)))
                 /\ ret = Log2(FDiv(p_xy, FMul(p_x, p_y)))

\* C15 witness: word1 = word2 occurring at two adjacent positions: each
\* centre has the other position as its one co-occurrence, the count is 2
\* of 3 slots and the result is log2((2/3) / (2/3)^2) = log2(3/2)
C15_Witness ==
    /\ call = "pointwise_mutual_information"
    /\ tokens = <<"a", "a", "b">>
    /\ args.word1 = "a"
    /\ args.word2 = "a"
    /\ args.window_size = 1
    /\ ret = Log2(<<3, 2>>)
    /\ FLess(Zero, ret)

\* C16: a diversity or entropy function called on a malformed argument does
\* not propagate a type failure: on an argument that is no sequence it
\* returns its empty-input sentinel (1.0 for perplexity_unigram, 0.0 for the
\* others), and on a list with a token that is no str it returns a value.
C16_DefensiveHandling ==
    call \in DOMAIN ArgumentUse =>
        /\ ~ret.raises
        /\ tokens.type # "list" =>
              ret.value = IF call = "perplexity_unigram" THEN One ELSE Zero

\* C16: log_ttr(None) raises TypeError
C16_Witness ==
    /\ call = "log_ttr"
    /\ tokens.type = "NoneType"
    /\ ret = Raise("TypeError")

\* the record of a corpus as a function of its own tokens: what
\* _compute_corpus_stats returns for them, the empty record when it raises
RecordOf(toks) ==
    IF ComputationRaises(toks) THEN _empty_result
    ELSE _compute_corpus_stats(toks).value

\* C17: in every state of every interleaving of the worker threads, and on
\* the sequential path, each name that results holds is the name of a corpus,
\* is held once, and is mapped to the record of that corpus's own tokens; no
\* record is stored under another corpus's name, and the rows of the frame
\* returned are these records.
C17_IndependentRecords ==
    /\ \A k \in DOMAIN results :
         /\ \E c \in DOMAIN corpora : corpora[c][1] = results[k][1]
         /\ \A m \in DOMAIN results : results[m][1] = results[k][1] => m = k
         /\ results[k][2] = RecordOf(TokensOf(results[k][1]))
    /\ (BatchReturned /\ corpora # <<>>) =>
          \A i \in DOMAIN ret.index :
              ret.values[i] =
                  DataFrameT(<<<<ret.index[i],
                                 RecordOf(TokensOf(ret.index[i]))>>>>).values[1]

\* C17 witness: three corpora with three different token lists whose futures
\* completed in the reverse of the order of submission; each name has the
\* record of its own tokens
C17_Witness ==
    /\ BatchReturned
    /\ Len(corpora) = 3
    /\ \A j, k \in DOMAIN corpora : corpora[j][2] = corpora[k][2] => j = k
    /\ Keys(results) = <<"c3", "c2", "c1">>
    /\ \A k \in DOMAIN results :
          results[k][2] = RecordOf(TokensOf(results[k][1]))

\* the counts of vocabulary v do not exceed those of vocabulary w
VocabWithin(v, w) ==
    /\ DOMAIN v \subseteq DOMAIN w
    /\ \A t \in DOMAIN v : v[t] <= w[t]

\* C18: heaps_law_analysis builds the growth curve in a single forward
\* pass: the sampling loop iterates over every token index exactly once, in
\* order (N visits in all, whatever the number of samples); the running
\* vocabulary after the rounds up to a sample holds that of every earlier
\* sample; and the vocabulary size returned for sample k is the number of
\* distinct tokens of tokens[0 : corpus_sizes[k]].
C18_SinglePass ==
    (call = "heaps_law_analysis" /\ args.step >= 1) =>
        LET N == Len(tokens)
            step == args.step
            st == HeapsScan(tokens, step)
            \* the running vocabulary when the loop has reached index i
            VocabAt(i) == HeapsScan(Slice(tokens, 0, i), step).vocab
        IN /\ N >= step =>
                /\ st.visits = [k \in 1..N |-> k - 1]
                /\ \A i, j \in {0} \cup {st.corpus_sizes[k] : k \in 1..st.sample_idx} :
                      i <= j => VocabWithin(VocabAt(i), VocabAt(j))
                /\ VocabAt(N) = st.vocab
                /\ ~(args.use_gpu /\ HAS_TORCH) =>
                      /\ ret[1] = st.corpus_sizes
                      /\ ret[2] = st.vocab_sizes
           /\ Len(ret) = 4 =>
                \A k \in DOMAIN ret[1] :
                    ret[2][k] = Cardinality({tokens[j] : j \in 1..ret[1][k]})

\* C18 witness: four tokens sampled in two windows of two: four visits, and
\* the second sample counts the token the second window brought
C18_Witness ==
    /\ call = "heaps_law_analysis"
    /\ args.step = 2
    /\ ~args.use_gpu
    /\ tokens = <<"a", "a", "b", "a">>
    /\ HeapsScan(tokens, 2).visits = <<0, 1, 2, 3>>
    /\ ret[1] = <<2, 4>>
    /\ ret[2] = <<1, 2>>

\* C19: compute_pairwise_similarity computes a Jaccard value for each pair
\* (i, j) with i < j, once, and for no pair with j <= i: n (n - 1) / 2
\* computations for n corpora; the value is written to (i, j) and mirrored to
\* (j, i), so that every cell of the n x n matrix is written.
C19_OncePerUnorderedPair ==
    (call = "compute_pairwise_similarity" /\ corpora # <<>>) =>
        LET n == Len(corpora)
            st == PairwiseScan(corpora)
        IN /\ \A k \in DOMAIN st.computed : st.computed[k][1] < st.computed[k][2]
           /\ \A k, m \in DOMAIN st.computed :
                 st.computed[k] = st.computed[m] => k = m
           /\ {st.computed[k] : k \in DOMAIN st.computed} =
                 {p \in (0..(n - 1)) \X (0..(n - 1)) : p[1] < p[2]}
           /\ 2 * Len(st.computed) = n * (n - 1)
           /\ st.written = (0..(n - 1)) \X (0..(n - 1))
           /\ ret.values = st.matrix
           /\ \A k \in DOMAIN st.computed :
                 ret.values[st.computed[k][2] + 1][st.computed[k][1] + 1] =
                     ret.values[st.computed[k][1] + 1][st.computed[k][2] + 1]

\* C19 witness: three corpora, three computations, in the order of the
\* pairs, and a mirrored value that is neither 0 nor 1
C19_Witness ==
    /\ call = "compute_pairwise_similarity"
    /\ Len(corpora) = 3
    /\ PairwiseScan(corpora).computed = <<<<0, 1>>, <<0, 2>>, <<1, 2>>>>
    /\ Cardinality(PairwiseScan(corpora).written) = 9
    /\ ret.values[3][1] = <<1, 2>>

\* C20: in conditional_entropy_bigrams, for N >= 2, the count of an
\* antecedent a is its number of occurrences at the non-final positions, so
\* the counts of the observed bigrams (a, .) sum to count(a), every
\* P(b | a) = count(a, b) / count(a) is in (0, 1] with a non-zero
\* denominator, the bigram frequencies are over exactly N - 1 bigrams, and
\* the result, the sum of -P(a, b) log2 P(b | a), is >= 0; for N < 2 the
\* result is 0.0.
C20_ConditionalEntropy ==
    call = "conditional_entropy_bigrams" =>
        LET N == Len(tokens)
            firsts == 1..(N - 1)
            observed == {<<tokens[i], tokens[i + 1]>> : i \in firsts}
            antecedents == {tokens[i] : i \in firsts}
            count2(p) == Cardinality({i \in firsts :
                             tokens[i] = p[1] /\ tokens[i + 1] = p[2]})
            count1(a) == Cardinality({i \in firsts : tokens[i] = a})
            term == [p \in observed |->
                        FMul(Div(count2(p), N - 1),
                             Log2(Div(count2(p), count1(p[1]))))]
        IN /\ N < 2 => ret = Zero
           /\ N >= 2 =>
                /\ \A a \in antecedents :
                      /\ count1(a) = CounterGet(Counter(Slice(tokens, 0, N - 1)), a)
                      /\ count1(a) > 0
                      /\ LET follows == {p \in observed : p[1] = a}
                         IN SumOver(follows, [p \in follows |-> count2(p)]) = count1(a)
                /\ \A p \in observed :
                      /\ 0 < count2(p)
                      /\ count2(p) <= count1(p[1])
                /\ SumOver(observed, [p \in observed |-> count2(p)]) = N - 1
                /\ ret = FSub(Zero, FSumOver(observed, term))
                /\ ~Raised(ret)
                /\ ~FLess(ret, Zero)

\* C20 witness: the final token is an a that is not counted as an
\* antecedent: count(a) is 2 of the 3 occurrences, P(a | a) = P(b | a) = 1/2,
\* P(a | b) = 1, and the result is 2/3
C20_Witness ==
    /\ call = "conditional_entropy_bigrams"
    /\ tokens = <<"a", "a", "b", "a">>
    /\ ret = <<2, 3>>

\* C21: zipfs_law_analysis returns the ranks 1..V and the frequencies of
\* the V types in non-increasing order, which sum to N; with more than one
\* type the exponent is the negated slope of the regression of the log
\* frequencies on the log ranks, with at most one type it is 0.0 and there
\* is no regression; the empty sequence gives two empty series and 0.0.
C21_ZipfSeries ==
    call = "zipfs_law_analysis" =>
        LET N == Len(tokens)
            types == {tokens[i] : i \in DOMAIN tokens}
            V == Cardinality(types)
            occurrences(t) == Cardinality({i \in DOMAIN tokens : tokens[i] = t})
        IN /\ Len(ret) = 3
           /\ ret[1] = [k \in 1..V |-> k]
           /\ DOMAIN ret[2] = 1..V
           /\ \A i, j \in 1..V : i <= j => ret[2][i] >= ret[2][j]
           /\ \A c \in 1..N :
                 Cardinality({k \in 1..V : ret[2][k] = c}) =
                     Cardinality({t \in types : occurrences(t) = c})
           /\ SumOfTerms(1..V, ret[2]) = N
           /\ V <= 1 => ret[3] = Zero
           /\ V > 1 => ret[3] = [negated |->
                                    np_polyfit(np_log(ret[1]), np_log(ret[2]))[1]]
           /\ N = 0 => ret = <<<<>>, <<>>, Zero>>

\* C21 witness: three types, the most frequent first
C21_Witness ==
    /\ call = "zipfs_law_analysis"
    /\ tokens = <<"a", "b", "b", "c">>
    /\ ret[1] = <<1, 2, 3>>
    /\ ret[2] = <<2, 1, 1>>

\* the fields of a per-corpus record that have a standalone function, with
\* the value of that function on the tokens
StandaloneValues(toks) ==
    [ttr |-> type_token_ratio(toks),
     root_ttr |-> root_ttr(toks),
     log_ttr |-> log_ttr(toks),
     hapax_ratio |-> hapax_legomena_ratio(toks),
     yules_k |-> yules_k(toks),
     simpsons_d |-> simpsons_d(toks),
     entropy |-> shannon_entropy(toks),
     norm_entropy |-> normalized_entropy(toks),
     perplexity |-> perplexity_unigram(toks)]

\* C22: for every token sequence, the empty one included, each field of the
\* record built by _compute_corpus_stats equals the value of the
\* corresponding standalone function on the same tokens.
C22_RecordEqualsFunctions ==
    call = "_compute_corpus_stats" =>
        /\ ~ret.raises
        /\ \A field \in DOMAIN StandaloneValues(tokens) :
              ret.value[field] = StandaloneValues(tokens)[field]

\* C22: the record of the empty sequence has perplexity 0, where
\* perplexity_unigram gives 1.0
C22_Witness ==
    /\ call = "_compute_corpus_stats"
    /\ tokens = <<>>
    /\ ret.value.perplexity = Zero
    /\ perplexity_unigram(tokens) = One

\* C23 as stated: for all corpora i and j, i = j included, entry (i, j) of
\* the matrix of compute_pairwise_similarity equals the jaccard_similarity
\* of vocabulary_overlap on the token sequences of corpus i and corpus j.
C23_MatrixEqualsOverlap ==
    call = "compute_pairwise_similarity" =>
        \A i, j \in DOMAIN corpora :
            ret.values[i][j] =
                vocabulary_overlap(corpora[i][2], corpora[j][2]).jaccard_similarity

\* C23, amended: for all corpora i # j, entry (i, j) of the matrix equals
\* the jaccard_similarity of vocabulary_overlap on the token sequences of
\* corpus i and corpus j; entry (i, i) is 1.0, which is that
\* jaccard_similarity unless corpus i has no tokens, where vocabulary_overlap
\* gives 0.0.
C23_MatrixIsJaccard ==
    call = "compute_pairwise_similarity" =>
        \A i, j \in DOMAIN corpora :
            LET jaccard ==
                    vocabulary_overlap(corpora[i][2], corpora[j][2]).jaccard_similarity
            IN /\ i # j => ret.values[i][j] = jaccard
               /\ i = j =>
                    /\ ret.values[i][i] = One
                    /\ jaccard = IF corpora[i][2] = <<>> THEN Zero ELSE One

\* C23 witness: a corpus without tokens next to two corpora that share one
\* token of two: 1.0 on the diagonal of the empty corpus, 1/2 for the pair
C23_Witness ==
    /\ call = "compute_pairwise_similarity"
    /\ Len(corpora) = 3
    /\ corpora[1][2] = <<>>
    /\ corpora[2][2] = <<"a">>
    /\ corpora[3][2] = <<"a", "b">>
    /\ ret.values[1][1] = One
    /\ vocabulary_overlap(corpora[1][2], corpora[1][2]).jaccard_similarity = Zero
    /\ ret.values[2][3] = <<1, 2>>

\* the properties C24 states of a returned tuple: ceil(N / step) samples,
\* corpus_sizes[k] = min((k + 1) step, N) (k from 0), strictly increasing and
\* ending with N, the last vocabulary size that of the whole sequence, and
\* one sample with K = beta = 0.0 when N = step
SampleSeries(result, toks, step) ==
    LET N == Len(toks)
        samples == (N + step - 1) \div step
    IN /\ Len(result) = 4
       /\ DOMAIN result[1] = 1..samples
       /\ DOMAIN result[2] = 1..samples
       /\ \A k \in 1..samples : result[1][k] = Min(k * step, N)
       /\ \A k \in 1..(samples - 1) : result[1][k] < result[1][k + 1]
       /\ result[1][samples] = N
       /\ result[2][samples] = Cardinality({toks[i] : i \in DOMAIN toks})
       /\ N = step => (samples = 1 /\ result[3] = Zero /\ result[4] = Zero)

\* C24: for every token sequence with N >= step >= 1, heaps_law_analysis
\* returns exactly ceil(N / step) samples, corpus_sizes is strictly
\* increasing with corpus_sizes[k] = min((k + 1) step, N), the last corpus
\* size is N and the last vocabulary size is the number of distinct tokens
\* of the sequence; for N = step there is one sample and K = beta = 0.0.
C24_SampleSeries ==
    (call = "heaps_law_analysis" /\ args.step >= 1 /\ Len(tokens) >= args.step) =>
        SampleSeries(ret, tokens, args.step)

\* C24: a call with use_gpu on two windows, in an interpreter whose torch
\* has no lstsq, ends with RuntimeError and returns no sample
C24_Witness ==
    /\ call = "heaps_law_analysis"
    /\ args.step = 2
    /\ Len(tokens) = 4
    /\ args.use_gpu
    /\ HAS_TORCH
    /\ ~torch_lstsq
    /\ ret = RuntimeError

\* C25: for every token sequence with N >= step >= 1 the torch path
\* _heaps_law_gpu returns the same sampled series as the reference path
\* _heaps_law_cpu_optimized: the same corpus_sizes and the same vocab_sizes,
\* element by element.
C25_SameSeries ==
    (/\ call = "heaps_law_analysis"
     /\ args.step >= 1
     /\ Len(tokens) >= args.step
     /\ args.use_gpu
     /\ HAS_TORCH) =>
        /\ Len(ret) = 4
        /\ SubSeq(ret, 1, 2) =
               SubSeq(_heaps_law_cpu_optimized(tokens, args.step), 1, 2)

\* C25: on three windows the reference path returns the series (1, 2, 3),
\* (1, 2, 2) and the torch path ends with RuntimeError
C25_Witness ==
    /\ call = "heaps_law_analysis"
    /\ args.step = 1
    /\ args.use_gpu
    /\ HAS_TORCH
    /\ tokens = <<"a", "b", "a">>
    /\ SubSeq(_heaps_law_cpu_optimized(tokens, 1), 1, 2) =
           <<<<1, 2, 3>>, <<1, 2, 2>>>>
    /\ ret = RuntimeError

\* the number of positions of document d of tls that hold the word w
Occurrences(tls, d, w) ==
    Cardinality({k \in DOMAIN tls[d] : tls[d][k] = w})

\* C26 as stated: for every list of documents and every supplied vocabulary
\* (words missing or repeated included) entry (d, j) of the matrix returned by
\* compute_frequency_matrix_gpu is the number of occurrences of vocab[j] in
\* document d, and each row sum is at most the document length.
C26_EntryIsCount ==
    (/\ call = "compute_frequency_matrix_gpu"
     /\ supplied_vocab # None
     /\ token_lists # <<>>
     /\ supplied_vocab[1] # <<>>) =>
        LET vocab == supplied_vocab[1]
        IN /\ DOMAIN ret = DOMAIN token_lists
           /\ \A d \in DOMAIN token_lists :
                /\ DOMAIN ret[d] = DOMAIN vocab
                /\ \A j \in DOMAIN vocab :
                     ret[d][j] = Float(Occurrences(token_lists, d, vocab[j]))
                /\ SumOfTerms(DOMAIN vocab, [j \in DOMAIN vocab |-> ret[d][j][1]])
                       <= Len(token_lists[d])

\* C26: for every list of documents and every supplied vocabulary the matrix
\* returned by compute_frequency_matrix_gpu has one row per document and one
\* column per vocabulary entry; entry (d, j) is the number of occurrences of
\* vocab[j] in document d when j is the last position of that word in the
\* vocabulary and 0.0 when the word is repeated at a later position; words
\* that are not in the vocabulary count in no column and each row sum is at
\* most the document length.  Without a document or with an empty vocabulary
\* the empty array is returned.
C26_LastEntryIsCount ==
    (call = "compute_frequency_matrix_gpu" /\ supplied_vocab # None) =>
        LET vocab == supplied_vocab[1]
            repeated_later(j) == \E k \in DOMAIN vocab : k > j /\ vocab[k] = vocab[j]
        IN IF token_lists = <<>> \/ vocab = <<>> THEN ret = <<>>
           ELSE /\ DOMAIN ret = DOMAIN token_lists
                /\ \A d \in DOMAIN token_lists :
                     /\ DOMAIN ret[d] = DOMAIN vocab
                     /\ \A j \in DOMAIN vocab :
                          ret[d][j] = IF repeated_later(j) THEN Zero
                                      ELSE Float(Occurrences(token_lists, d, vocab[j]))
                     /\ SumOfTerms(DOMAIN vocab,
                                   [j \in DOMAIN vocab |-> ret[d][j][1]])
                            <= Len(token_lists[d])

\* C26 witness: the vocabulary (a, c, a) and the document (a, b): the count
\* of a is in the last column only and b is in no column
C26_Witness ==
    /\ call = "compute_frequency_matrix_gpu"
    /\ supplied_vocab = Some(<<"a", "c", "a">>)
    /\ token_lists = <<<<"a", "b">>>>
    /\ ret = <<<<Zero, Zero, One>>>>

====
